---------------------------- MODULE Spec2Model ----------------------------
(***************************************************************************)
(* Model of the mutual-fund backtest core: the NAV table cleaner and the   *)
(* trading-day resolver (strategies/helpers.py), the lump-sum and SIP      *)
(* simulators (strategies/lumpsum.py, strategies/sip.py) and the           *)
(* multi-asset merger (strategies/portfolio_fixed_split.py), the metrics   *)
(* and rolling returns (analytics/metrics.py, analytics/rolling.py) and    *)
(* the parallel NAV fetch (service/nav_parallel.py).                       *)
(*                                                                         *)
(* Dates are <<year, month, day>> triples compared lexicographically.      *)
(* Python floats are modelled as exact rationals [n, d] in lowest terms:   *)
(* amount / nav is a true quotient, not an integer division; rounding      *)
(* error of IEEE doubles is outside this model, except for the bracket of  *)
(* the rate solver, which is carried bit by bit as doubles.                *)
(***************************************************************************)
EXTENDS Integers, Sequences, FiniteSets, TLC

VARIABLES nav_df, call, ret, asset_series, merged,
          portfolio_daily, low, high, step, futures, out

\* the state of the analytics layer: the ledger handed to it and the bracket
\* and loop counter of the rate solver
analyticsVars == <<portfolio_daily, low, high, step>>

\* the state of the parallel fetch: the submitted tasks and the mapping built
fetchVars == <<futures, out>>

vars == <<nav_df, call, ret, asset_series, merged, analyticsVars, fetchVars>>

-----------------------------------------------------------------------------
(* Bounds of the model *)

\* largest number of rows of a NAV table handed to a simulator or resolver
MaxRows == 3

\* number of assets a portfolio may hold when the merger is exercised
MaxAssets == 3

-----------------------------------------------------------------------------
(* Exact arithmetic standing for Python float arithmetic *)

Abs(x) == IF x < 0 THEN -x ELSE x

RECURSIVE Gcd(_, _)
Gcd(a, b) == IF b = 0 THEN a ELSE Gcd(b, a % b)

\* the rational n/d in lowest terms with a positive denominator (d # 0)
Rat(n, d) ==
    LET g == Gcd(Abs(n), Abs(d))
        s == IF d < 0 THEN -1 ELSE 1
    IN  [n |-> (s * n) \div g, d |-> (s * d) \div g]

Zero == Rat(0, 1)

FromInt(i) == Rat(i, 1)

RatAdd(a, b) == Rat(a.n * b.d + b.n * a.d, a.d * b.d)

RatMul(a, b) == Rat(a.n * b.n, a.d * b.d)

\* a / b for b # 0
RatDiv(a, b) == Rat(a.n * b.d, a.d * b.n)

RatLE(a, b) == a.n * b.d <= b.n * a.d

RatLT(a, b) == a.n * b.d < b.n * a.d

-----------------------------------------------------------------------------
(* Calendar: datetime.date *)

NoDate == <<>>

DateLT(a, b) ==
    \/ a[1] < b[1]
    \/ a[1] = b[1] /\ a[2] < b[2]
    \/ a[1] = b[1] /\ a[2] = b[2] /\ a[3] < b[3]

DateLE(a, b) == a = b \/ DateLT(a, b)

IsLeap(y) == (y % 4 = 0 /\ y % 100 # 0) \/ y % 400 = 0

\* the last calendar day of month m of year y
DaysInMonth(y, m) ==
    IF m = 2 THEN (IF IsLeap(y) THEN 29 ELSE 28)
    ELSE IF m \in {4, 6, 9, 11} THEN 30 ELSE 31

-----------------------------------------------------------------------------
(* Sequence helpers standing for pandas row selection *)

Range(s) == {s[i] : i \in 1..Len(s)}

RECURSIVE InsertByDate(_, _)
\* r inserted into the date-sorted s after every row whose date is <= r.date
InsertByDate(s, r) ==
    IF s = <<>> THEN <<r>>
    ELSE IF DateLT(r.date, Head(s).date) THEN <<r>> \o s
         ELSE <<Head(s)>> \o InsertByDate(Tail(s), r)

RECURSIVE SortByDate(_)
\* df.sort_values('date'): ascending by date
SortByDate(s) ==
    IF s = <<>> THEN <<>>
    ELSE InsertByDate(SortByDate(SubSeq(s, 1, Len(s) - 1)), s[Len(s)])

IsSortedByDate(s) == \A i \in 1..(Len(s) - 1) : DateLE(s[i].date, s[i + 1].date)

-----------------------------------------------------------------------------
(* Results: a call either raises ValueError or returns a value *)

NoDataMsg == "No NAV data in requested date range"
NoNavAfterStartMsg == "No NAV available on or after start_date"
InvalidNavMsg == "Invalid NAV on invest date"
MissingColumnsMsg == "nav_df must contain 'date' and 'nav' columns"
NoValidRowsMsg == "NAV dataframe contains no valid rows after cleaning"

Raise(msg) == [kind |-> "error", msg |-> msg]

ReturnFrame(rows) == [kind |-> "frame", rows |-> rows]

ReturnDate(d) == [kind |-> "date", date |-> d]

NoCall == [op |-> "none"]

NoRet == [kind |-> "none"]

\* no ledger handed to the analytics layer, no solver running
AnalyticsIdle ==
    /\ portfolio_daily = [columns |-> {}, rows |-> <<>>]
    /\ low = <<>> /\ high = <<>> /\ step = 0

\* no fetch under way
FetchIdle == futures = <<>> /\ out = <<>>

-----------------------------------------------------------------------------
(* strategies/helpers.py *)

\* A raw NAV table is [columns, rows]; a raw row is [date, nav, numeric] where
\* numeric = FALSE stands for a nav cell that pd.to_numeric coerces to NaN.
_ensure_nav_df(df) ==
    IF ~({"date", "nav"} \subseteq df.columns)
    THEN Raise(MissingColumnsMsg)
    ELSE LET sorted  == SortByDate(df.rows)
             NotNaN(r) == r.numeric
             cleaned == SelectSeq(sorted, NotNaN)
             typed   == [i \in 1..Len(cleaned) |->
                            [date |-> cleaned[i].date, nav |-> cleaned[i].nav]]
         IN  IF typed = <<>> THEN Raise(NoValidRowsMsg) ELSE ReturnFrame(typed)

\* datetime(year, month, day).date(), or the month's last day when that raises
Candidate(year, month, day) ==
    IF day >= 1 /\ day <= DaysInMonth(year, month)
    THEN <<year, month, day>>
    ELSE <<year, month, DaysInMonth(year, month)>>

\* the fallback taking the earliest earlier date instead of the latest
PrevMutant(prevs) == prevs[1].date

\* prevs[-1]
Prev(prevs) == prevs[Len(prevs)].date

\* rows is a cleaned table; the result is a date or NoDate (Python None)
_next_trading_day_in_month(rows, year, month, day) ==
    LET candidate == Candidate(year, month, day)
        InMonth(r) == r.date[1] = year /\ r.date[2] = month
        available == SortByDate(SelectSeq(rows, InMonth))
        OnOrAfter(r) == DateLE(candidate, r.date)
        Before(r) == DateLT(r.date, candidate)
        nexts == SelectSeq(available, OnOrAfter)
        prevs == SelectSeq(available, Before)
    IN  IF available = <<>> THEN NoDate
        ELSE IF candidate \in {r.date : r \in Range(available)} THEN candidate
        ELSE IF nexts # <<>> THEN nexts[1].date
        ELSE IF prevs # <<>> THEN Prev(prevs)
        ELSE NoDate

-----------------------------------------------------------------------------
(* strategies/lumpsum.py *)

\* the row valued from the units bought that day instead of the units held
RowOfUnitsToday(r, cashflow, units_today, total_units, cumulative_invested) ==
    [date |-> r.date, nav |-> r.nav, cashflow |-> cashflow,
     units_bought |-> units_today, total_units |-> total_units,
     portfolio_value |-> RatMul(units_today, FromInt(r.nav)),
     cumulative_invested |-> cumulative_invested]

RowOf(r, cashflow, units_today, total_units, cumulative_invested) ==
    [date |-> r.date, nav |-> r.nav, cashflow |-> cashflow,
     units_bought |-> units_today, total_units |-> total_units,
     portfolio_value |-> RatMul(total_units, FromInt(r.nav)),
     cumulative_invested |-> cumulative_invested]

RECURSIVE LumpsumRows(_, _, _, _, _, _, _)
\* the loop over out_df: rows from index i on, given the running totals
LumpsumRows(out_df, i, invest_date, amount, units_bought, total_units, cumulative_invested) ==
    IF i > Len(out_df) THEN <<>>
    ELSE LET r == out_df[i]
             buys == r.date = invest_date
             cashflow == IF buys THEN amount ELSE 0
             units_today == IF buys THEN units_bought ELSE Zero
             tu == RatAdd(total_units, units_today)
             ci == cumulative_invested + cashflow
         IN  <<RowOf(r, cashflow, units_today, tu, ci)>>
             \o LumpsumRows(out_df, i + 1, invest_date, amount, units_bought, tu, ci)

\* end_date = NoDate stands for end_date=None
simulate_lumpsum(df, amount, start_date, end_date) ==
    LET ensured == _ensure_nav_df(df)
    IN  IF ensured.kind = "error" THEN ensured
        ELSE
        LET rows == ensured.rows
            end == IF end_date # NoDate THEN end_date ELSE rows[Len(rows)].date
            OnOrAfterStart(r) == DateLE(start_date, r.date)
            cand == SelectSeq(rows, OnOrAfterStart)
        IN  IF cand = <<>> THEN Raise(NoNavAfterStartMsg)
            ELSE
            LET invest_date == cand[1].date
                invest_nav == cand[1].nav
                InOut(r) == DateLE(invest_date, r.date) /\ DateLE(r.date, end)
                out_df == SelectSeq(rows, InOut)
            IN  IF invest_nav <= 0 THEN Raise(InvalidNavMsg)
                ELSE ReturnFrame(LumpsumRows(out_df, 1, invest_date, amount,
                                             RatDiv(FromInt(amount), FromInt(invest_nav)),
                                             Zero, 0))

-----------------------------------------------------------------------------
(* strategies/sip.py *)

RECURSIVE MonthsBetween(_, _, _)
\* the (year, month) pairs visited by the loop `while cur <= end`
MonthsBetween(y, m, end) ==
    IF ~DateLE(<<y, m, 1>>, end) THEN <<>>
    ELSE <<<<y, m>>>> \o (IF m = 12 THEN MonthsBetween(y + 1, 1, end)
                          ELSE MonthsBetween(y, m + 1, end))

\* the resolved dates kept without the test `target < start or target > end`
InvestDatesUnrestricted(rows, sip_day, start, end) ==
    LET months == MonthsBetween(start[1], start[2], end)
        Target(i) == _next_trading_day_in_month(rows, months[i][1], months[i][2], sip_day)
    IN  {Target(i) : i \in {j \in 1..Len(months) : Target(j) # NoDate}}

\* the set of monthly purchase dates (invest_dates_set)
InvestDates(rows, sip_day, start, end) ==
    LET months == MonthsBetween(start[1], start[2], end)
        Target(i) == _next_trading_day_in_month(rows, months[i][1], months[i][2], sip_day)
    IN  {Target(i) : i \in {j \in 1..Len(months) :
                               /\ Target(j) # NoDate
                               /\ ~DateLT(Target(j), start)
                               /\ ~DateLT(end, Target(j))}}

\* a purchase guarded by the truthiness of the price instead of its sign
PriceOkNonZero(nav) == nav # 0

\* whether a purchase whose day's price is nav is made
PriceOk(nav) == nav > 0

\* the monthly amount assigned to the row's cashflow instead of added to it
PostOverwriting(cf_init, cf_sip) == IF cf_sip # 0 THEN cf_sip ELSE cf_init

\* cashflow += initial_amount; cashflow += monthly_amount
Post(cf_init, cf_sip) == cf_init + cf_sip

RECURSIVE SipRows(_, _, _, _, _, _, _, _)
\* the loop over window_df: rows from index i on, given the running totals
SipRows(window_df, i, invest_dates_set, initial_invest_date, monthly_amount, initial_amount, total_units, cumulative_invested) ==
    IF i > Len(window_df) THEN <<>>
    ELSE LET r == window_df[i]
             init == initial_invest_date # NoDate /\ r.date = initial_invest_date
                     /\ PriceOk(r.nav)
             sip == r.date \in invest_dates_set /\ PriceOk(r.nav)
             cf_init == IF init THEN initial_amount ELSE 0
             cf_sip == IF sip THEN monthly_amount ELSE 0
             units_init == IF init THEN RatDiv(FromInt(initial_amount), FromInt(r.nav))
                           ELSE Zero
             units_sip == IF sip THEN RatDiv(FromInt(monthly_amount), FromInt(r.nav))
                          ELSE Zero
             cashflow == Post(cf_init, cf_sip)
             units_today == RatAdd(units_init, units_sip)
             tu == RatAdd(RatAdd(total_units, units_init), units_sip)
             ci == cumulative_invested + cf_init + cf_sip
         IN  <<RowOf(r, cashflow, units_today, tu, ci)>>
             \o SipRows(window_df, i + 1, invest_dates_set, initial_invest_date,
                        monthly_amount, initial_amount, tu, ci)

simulate_sip(df, monthly_amount, sip_day, start, end, initial_amount) ==
    LET ensured == _ensure_nav_df(df)
    IN  IF ensured.kind = "error" THEN ensured
        ELSE
        LET full_df == ensured.rows
            InWindow(r) == DateLE(start, r.date) /\ DateLE(r.date, end)
            window_df == SelectSeq(full_df, InWindow)
            invest_dates == InvestDates(full_df, sip_day, start, end)
            OnOrAfterStart(r) == DateLE(start, r.date)
            cand == SelectSeq(full_df, OnOrAfterStart)
            wants_initial == initial_amount > 0
            initial_invest_date == IF wants_initial /\ cand # <<>> THEN cand[1].date
                                   ELSE NoDate
        IN  IF window_df = <<>> THEN Raise(NoDataMsg)
            ELSE IF wants_initial /\ cand = <<>> THEN Raise(NoNavAfterStartMsg)
            ELSE ReturnFrame(SipRows(window_df, 1, invest_dates, initial_invest_date,
                                     monthly_amount, initial_amount, Zero, 0))

-----------------------------------------------------------------------------
(* strategies/portfolio_fixed_split.py *)

\* A frame being merged is a sequence of rows [date, cells], cells mapping each
\* asset id of the frame to <<>> (NaN in all of the asset's columns) or to
\* <<r>>, r the asset's ledger row of that date.  asset_series_map is a
\* sequence of <<asset id, ledger>> pairs in the dict's insertion order.

NaN == <<>>

\* d = df.rename(columns=rename_map)[cols_keep]
Renamed(aid, ledger) ==
    [i \in 1..Len(ledger) |-> [date |-> ledger[i].date, cells |-> (aid :> <<ledger[i]>>)]]

FrameDates(frame) == {frame[i].date : i \in 1..Len(frame)}

RECURSIVE SetToSortedSeq(_)
\* the dates of S in ascending order
SetToSortedSeq(S) ==
    IF S = {} THEN <<>>
    ELSE LET m == CHOOSE d \in S : \A e \in S : DateLE(d, e)
         IN  <<m>> \o SetToSortedSeq(S \ {m})

\* the cells of the frame's row dated d, NaN for every asset when it has none
CellsOn(frame, aids, d) ==
    IF d \in FrameDates(frame)
    THEN (CHOOSE r \in Range(frame) : r.date = d).cells
    ELSE [a \in aids |-> NaN]

\* the join keeping only the dates of the left frame (how='left')
LeftMerge(left, la, right, ra) ==
    [i \in 1..Len(left) |->
        [date |-> left[i].date,
         cells |-> left[i].cells @@ CellsOn(right, ra, left[i].date)]]

\* pd.merge(left, right, on='date', how='outer'): one row per date of either
\* frame (each frame has one row per date), keys in ascending order
OuterMerge(left, la, right, ra) ==
    LET keys == SetToSortedSeq(FrameDates(left) \cup FrameDates(right))
    IN  [i \in 1..Len(keys) |->
            [date |-> keys[i],
             cells |-> CellsOn(left, la, keys[i]) @@ CellsOn(right, ra, keys[i])]]

RECURSIVE MergeFrames(_, _, _, _)
\* for other in dfs[1:]: merged = pd.merge(merged, other, ...)
MergeFrames(acc, accAids, series, i) ==
    IF i > Len(series) THEN acc
    ELSE MergeFrames(OuterMerge(acc, accAids,
                                Renamed(series[i][1], series[i][2]), {series[i][1]}),
                     accAids \cup {series[i][1]}, series, i + 1)

\* column.fillna(0.0) at row i: the asset's own value, zero when it has no row
FilledWithZero(frame, i, aid, col, zero) ==
    IF frame[i].cells[aid] # NaN THEN frame[i].cells[aid][1][col] ELSE zero

\* column.ffill().fillna(0.0) at row i: the asset's value on its latest row at
\* or before row i, zero when it has none
ForwardFilled(frame, i, aid, col, zero) ==
    LET known == {j \in 1..i : frame[j].cells[aid] # NaN}
    IN  IF known = {} THEN zero
        ELSE LET j == CHOOSE k \in known : \A l \in known : l <= k
             IN  frame[j].cells[aid][1][col]

\* the valuation column filled with zero only
FillAssetValueNoCarry(frame, i, aid) ==
    FilledWithZero(frame, i, aid, "portfolio_value", Zero)

\* merged[asset_value_cols].ffill().fillna(0.0)
FillAssetValue(frame, i, aid) == ForwardFilled(frame, i, aid, "portfolio_value", Zero)

\* the invested-to-date column filled with zero only
FillCumInvNoCarry(frame, i, aid) ==
    FilledWithZero(frame, i, aid, "cumulative_invested", 0)

\* merged[cuminvs].ffill().fillna(0.0)
FillCumInv(frame, i, aid) == ForwardFilled(frame, i, aid, "cumulative_invested", 0)

\* the cashflow column carried forward like the other two
FillCashflowCarried(frame, i, aid) == ForwardFilled(frame, i, aid, "cashflow", 0)

\* merged[cashflow_cols].fillna(0.0)
FillCashflow(frame, i, aid) == FilledWithZero(frame, i, aid, "cashflow", 0)

RECURSIVE SumRat(_, _)
SumRat(f, S) ==
    IF S = {} THEN Zero
    ELSE LET a == CHOOSE x \in S : TRUE IN RatAdd(f[a], SumRat(f, S \ {a}))

RECURSIVE SumInt(_, _)
SumInt(f, S) ==
    IF S = {} THEN 0
    ELSE LET a == CHOOSE x \in S : TRUE IN f[a] + SumInt(f, S \ {a})

AssetColumns(aid) ==
    {<<c, aid>> : c \in {"nav", "cashflow", "units_bought", "total_units",
                         "asset_value", "cuminv"}}

\* asset_series_map given as the sequence of its items
merge_asset_series(series) ==
    IF series = <<>> THEN [kind |-> "frame", columns |-> {<<"date">>}, rows |-> <<>>]
    ELSE
    LET aids == {series[i][1] : i \in 1..Len(series)}
        joined == MergeFrames(Renamed(series[1][1], series[1][2]), {series[1][1]},
                              series, 2)
        frame == SortByDate(joined)
        row(i) ==
            LET asset_value == [a \in aids |-> FillAssetValue(frame, i, a)]
                cuminv == [a \in aids |-> FillCumInv(frame, i, a)]
                cashflow == [a \in aids |-> FillCashflow(frame, i, a)]
            IN  [date |-> frame[i].date,
                 asset_value |-> asset_value, cuminv |-> cuminv, cashflows |-> cashflow,
                 portfolio_value |-> SumRat(asset_value, aids),
                 cashflow |-> SumInt(cashflow, aids),
                 cumulative_invested |-> SumInt(cuminv, aids)]
    IN  [kind |-> "frame",
         columns |-> {<<"date">>, <<"portfolio_value">>, <<"cashflow">>,
                      <<"cumulative_invested">>}
                     \cup UNION {AssetColumns(a) : a \in aids},
         rows |-> [i \in 1..Len(frame) |-> row(i)]]

-----------------------------------------------------------------------------
(* Inputs *)

\* the dates on which a NAV may be published
TradingDates == {<<2024, 1, 10>>, <<2024, 1, 31>>, <<2024, 2, 10>>, <<2024, 2, 20>>}

\* NAV cells: prices, a zero and a negative price
NavValues == {-1, 0, 1, 2}

StartDates == {<<2023, 12, 15>>, <<2024, 1, 15>>, <<2024, 2, 10>>}

EndDates == {<<2024, 1, 31>>, <<2024, 2, 20>>, <<2024, 3, 31>>}

Amounts == {-3, 0, 3}

InitialAmounts == {0, 3}

SipDays == {10, 31}

\* the dates of the tables handed to the resolver alone
ResolveDates ==
    TradingDates \cup {<<2024, 2, 29>>, <<2024, 4, 30>>, <<2023, 2, 28>>}

ResolveMonths == {<<2023, 2>>, <<2023, 12>>, <<2024, 1>>, <<2024, 2>>, <<2024, 4>>}

TargetDays == 1..31

RawRows ==
    [date : TradingDates, nav : NavValues, numeric : {TRUE}]
    \cup [date : TradingDates, nav : {0}, numeric : {FALSE}]

HasDistinctDates(rows) ==
    \A i, j \in 1..Len(rows) : i # j => rows[i].date # rows[j].date

IsDescendingByDate(s) == \A i \in 1..(Len(s) - 1) : DateLT(s[i + 1].date, s[i].date)

\* raw tables of at most MaxRows rows, one row per date, oldest row first or
\* newest row first; and two tables lacking a column
RawTables ==
    LET seqs == UNION {[1..n -> RawRows] : n \in 0..MaxRows}
        ordered == {t \in seqs : HasDistinctDates(t)
                                 /\ (IsSortedByDate(t) \/ IsDescendingByDate(t))}
    IN  {[columns |-> {"date", "nav"}, rows |-> t] : t \in ordered}
        \cup {[columns |-> c, rows |-> <<>>] : c \in {{"date"}, {"nav"}}}

\* tables for the resolver, rows in any order: only the dates matter, every
\* price is 1
DateTables ==
    LET rws == [date : ResolveDates, nav : {1}, numeric : {TRUE}]
        seqs == UNION {[1..n -> rws] : n \in 1..MaxRows}
    IN  {[columns |-> {"date", "nav"}, rows |-> s] : s \in {t \in seqs : HasDistinctDates(t)}}

-----------------------------------------------------------------------------
(* The simulators and the resolver applied to a NAV table *)

Init ==
    /\ nav_df \in RawTables
    /\ call = NoCall
    /\ ret = NoRet
    /\ asset_series = <<>>
    /\ merged = NoRet
    /\ AnalyticsIdle /\ FetchIdle

Lumpsum ==
    /\ call = NoCall
    /\ \E amount \in Amounts, start \in StartDates, end \in EndDates \cup {NoDate} :
          /\ call' = [op |-> "lumpsum", amount |-> amount, start |-> start, end |-> end]
          /\ ret' = simulate_lumpsum(nav_df, amount, start, end)
    /\ UNCHANGED <<nav_df, asset_series, merged, analyticsVars, fetchVars>>

Sip ==
    /\ call = NoCall
    /\ \E monthly_amount \in Amounts, sip_day \in SipDays, start \in StartDates,
          end \in EndDates, initial_amount \in InitialAmounts :
          /\ call' = [op |-> "sip", monthly_amount |-> monthly_amount,
                      sip_day |-> sip_day, start |-> start, end |-> end,
                      initial_amount |-> initial_amount]
          /\ ret' = simulate_sip(nav_df, monthly_amount, sip_day, start, end,
                                 initial_amount)
    /\ UNCHANGED <<nav_df, asset_series, merged, analyticsVars, fetchVars>>

Next == Lumpsum \/ Sip

Spec == Init /\ [][Next]_vars

-----------------------------------------------------------------------------
(* The resolver applied to the cleaned table, as simulate_sip calls it *)

InitResolve ==
    /\ nav_df \in DateTables
    /\ call = NoCall
    /\ ret = NoRet
    /\ asset_series = <<>>
    /\ merged = NoRet
    /\ AnalyticsIdle /\ FetchIdle

Resolve ==
    /\ call = NoCall
    /\ _ensure_nav_df(nav_df).kind = "frame"
    /\ \E ym \in ResolveMonths, day \in TargetDays :
          /\ call' = [op |-> "resolve", year |-> ym[1], month |-> ym[2], day |-> day]
          /\ ret' = ReturnDate(_next_trading_day_in_month(_ensure_nav_df(nav_df).rows,
                                                          ym[1], ym[2], day))
    /\ UNCHANGED <<nav_df, asset_series, merged, analyticsVars, fetchVars>>

NextResolve == Resolve

SpecResolve == InitResolve /\ [][NextResolve]_vars

-----------------------------------------------------------------------------
(* The merger applied to ledgers the simulators return *)

AssetIds == 1..MaxAssets

\* the NAV rows the assets' tables are made of
AssetNavRows ==
    {[date |-> <<2024, 1, 10>>, nav |-> 1, numeric |-> TRUE],
     [date |-> <<2024, 1, 31>>, nav |-> 2, numeric |-> TRUE],
     [date |-> <<2024, 2, 10>>, nav |-> 1, numeric |-> TRUE]}

\* one table per non-empty set of those rows
AssetTables ==
    LET seqs == UNION {[1..n -> AssetNavRows] : n \in 1..Cardinality(AssetNavRows)}
    IN  {[columns |-> {"date", "nav"}, rows |-> t] :
            t \in {u \in seqs : \A i \in 1..(Len(u) - 1) : DateLT(u[i].date, u[i + 1].date)}}

\* the ledgers an asset may bring: a SIP of 3 a month on day 10 from mid
\* December on, or a lump sum of 3 in mid January, both through March
AssetLedgers ==
    LET end == <<2024, 3, 31>>
        results ==
            {simulate_sip(t, 3, 10, <<2023, 12, 15>>, end, 0) : t \in AssetTables}
            \cup {simulate_lumpsum(t, 3, <<2024, 1, 15>>, end) : t \in AssetTables}
    IN  {r.rows : r \in {x \in results : x.kind = "frame"}}

InitMerge ==
    /\ nav_df = [columns |-> {"date", "nav"}, rows |-> <<>>]
    /\ call = NoCall
    /\ ret = NoRet
    /\ asset_series = <<>>
    /\ merged = NoRet
    /\ AnalyticsIdle /\ FetchIdle

\* asset_series_map[aid] = ledger, for an id the map does not hold yet
AddAsset ==
    /\ merged = NoRet
    /\ Len(asset_series) < MaxAssets
    /\ \E aid \in AssetIds, ledger \in AssetLedgers :
          /\ \A i \in 1..Len(asset_series) : asset_series[i][1] # aid
          /\ asset_series' = Append(asset_series, <<aid, ledger>>)
    /\ UNCHANGED <<nav_df, call, ret, merged, analyticsVars, fetchVars>>

Merge ==
    /\ merged = NoRet
    /\ merged' = merge_asset_series(asset_series)
    /\ UNCHANGED <<nav_df, call, ret, asset_series, analyticsVars, fetchVars>>

NextMerge == AddAsset \/ Merge

SpecMerge == InitMerge /\ [][NextMerge]_vars

-----------------------------------------------------------------------------
(* Vocabulary of the properties *)

IsLumpsum == call.op = "lumpsum"

IsSip == call.op = "sip"

ReturnedLedger == ret.kind = "frame"

Ledger == ret.rows

\* the cleaned NAV table of the call (defined when cleaning succeeds)
Cleaned == _ensure_nav_df(nav_df)

CleanedOk == Cleaned.kind = "frame"

NavRows == Cleaned.rows

AmountsNonNegative ==
    \/ IsLumpsum /\ call.amount >= 0
    \/ IsSip /\ call.monthly_amount >= 0 /\ call.initial_amount >= 0

-----------------------------------------------------------------------------
(* C1 *)

\* C1: in every ledger returned by simulate_lumpsum or simulate_sip for
\* non-negative contribution amounts, each row's portfolio_value is that row's
\* total_units times that row's nav, and total_units and cumulative_invested
\* never decrease from a row to the next.
C1_LedgerInvariant ==
    (ReturnedLedger /\ (IsLumpsum \/ IsSip) /\ AmountsNonNegative) =>
        /\ \A i \in 1..Len(Ledger) :
              Ledger[i].portfolio_value.n * Ledger[i].total_units.d
                  = Ledger[i].total_units.n * Ledger[i].nav * Ledger[i].portfolio_value.d
        /\ \A i \in 1..(Len(Ledger) - 1) :
              /\ RatLE(Ledger[i].total_units, Ledger[i + 1].total_units)
              /\ Ledger[i].cumulative_invested <= Ledger[i + 1].cumulative_invested

\* a SIP ledger in which units and invested capital grow between two rows whose
\* prices differ, the later one valued above zero
C1_Witness ==
    /\ IsSip /\ ReturnedLedger /\ AmountsNonNegative
    /\ \E i \in 1..(Len(Ledger) - 1) :
          /\ RatLT(Ledger[i].total_units, Ledger[i + 1].total_units)
          /\ RatLT(Zero, Ledger[i].total_units)
          /\ Ledger[i].cumulative_invested < Ledger[i + 1].cumulative_invested
          /\ Ledger[i].nav # Ledger[i + 1].nav
          /\ \E j \in 1..Len(Ledger) : Ledger[j].nav < 0

-----------------------------------------------------------------------------
(* C2 *)

IsResolve == call.op = "resolve"

\* the dates of the series that fall in the month of the call
MonthDates == {r.date : r \in {x \in Range(NavRows) :
                                  x.date[1] = call.year /\ x.date[2] = call.month}}

\* year-month-target_day, clamped to the month's last calendar day
ClampedCandidate ==
    <<call.year, call.month,
      IF call.day > DaysInMonth(call.year, call.month)
      THEN DaysInMonth(call.year, call.month) ELSE call.day>>

Earliest(S) == CHOOSE d \in S : \A e \in S : DateLE(d, e)

Latest(S) == CHOOSE d \in S : \A e \in S : DateLE(e, d)

\* C2: for every series and every target day in 1..31 the resolver returns the
\* clamped candidate if the series has it, else the earliest series date of the
\* month after the candidate, else the latest series date of the month before
\* it, and none exactly when the series has no date in the month.
C2_ThreeTierFallback ==
    IsResolve =>
        LET after == {d \in MonthDates : DateLT(ClampedCandidate, d)}
            before == {d \in MonthDates : DateLT(d, ClampedCandidate)}
        IN  /\ (ret.date = NoDate) <=> (MonthDates = {})
            /\ ClampedCandidate \in MonthDates => ret.date = ClampedCandidate
            /\ (ClampedCandidate \notin MonthDates /\ after # {})
                  => ret.date = Earliest(after)
            /\ (ClampedCandidate \notin MonthDates /\ after = {} /\ before # {})
                  => ret.date = Latest(before)

\* a target day past the month's end whose clamped candidate is absent, with
\* two earlier dates of the month to fall back on
C2_Witness ==
    /\ IsResolve
    /\ call.day > DaysInMonth(call.year, call.month)
    /\ ClampedCandidate \notin MonthDates
    /\ Cardinality(MonthDates) = 2
    /\ ret.date = Latest(MonthDates)
    /\ ret.date # Earliest(MonthDates)

-----------------------------------------------------------------------------
(* C3 *)

\* the NAV dates on or after the start of the call
DatesFromStart == {r.date : r \in {x \in Range(NavRows) : DateLE(call.start, x.date)}}

\* the first NAV date >= start (defined when DatesFromStart is not empty)
FirstDateFromStart == Earliest(DatesFromStart)

NavOn(d) == (CHOOSE r \in Range(NavRows) : r.date = d).nav

\* end of the call; the last NAV date when a lump sum is given no end
EffectiveEnd ==
    IF call.end # NoDate THEN call.end ELSE NavRows[Len(NavRows)].date

LedgerDates == {Ledger[i].date : i \in 1..Len(Ledger)}

\* the lump-sum ledger bought exactly once, on the first NAV date >= start
SinglePurchase ==
    LET units == RatDiv(FromInt(call.amount), FromInt(NavOn(FirstDateFromStart)))
    IN  /\ \E i \in 1..Len(Ledger) : Ledger[i].date = FirstDateFromStart
        /\ \A i \in 1..Len(Ledger) :
              /\ Ledger[i].date = FirstDateFromStart =>
                    /\ Ledger[i].cashflow = call.amount
                    /\ Ledger[i].units_bought = units
              /\ Ledger[i].date # FirstDateFromStart =>
                    /\ Ledger[i].cashflow = 0
                    /\ Ledger[i].units_bought = Zero
              /\ Ledger[i].total_units = units
        /\ LedgerDates = {d \in DatesFromStart : DateLE(d, EffectiveEnd)}
        /\ Len(Ledger) = Cardinality(LedgerDates)
        /\ IsSortedByDate(Ledger)
        /\ Ledger[Len(Ledger)].portfolio_value
              = RatMul(units, FromInt(Ledger[Len(Ledger)].nav))

\* C3: every ledger simulate_lumpsum returns holds exactly one purchase, on the
\* first NAV date >= start (cashflow = amount, units_bought = amount / that
\* day's nav), every other row has cashflow 0 and units_bought 0, total_units
\* is amount / purchase-day nav on every row, the rows are exactly the NAV
\* dates from the purchase day through end, and the final portfolio_value is
\* units times the last row's nav.
C3_SinglePurchase ==
    (IsLumpsum /\ ReturnedLedger) => SinglePurchase

\* what does hold: the same for every ledger that has at least one row
C3_SinglePurchaseIfNonEmpty ==
    (IsLumpsum /\ ReturnedLedger /\ Ledger # <<>>) => SinglePurchase

-----------------------------------------------------------------------------
(* C4 *)

\* d is the date the resolver gives for its own month and the SIP day, and it
\* lies in [start, end]
IsMonthlyPurchaseDate(d) ==
    /\ _next_trading_day_in_month(NavRows, d[1], d[2], call.sip_day) = d
    /\ DateLE(call.start, d) /\ DateLE(d, call.end)

\* d is the day the initial amount is due
IsInitialPurchaseDate(d) ==
    call.initial_amount > 0 /\ d = FirstDateFromStart

RECURSIVE SumUnitsBought(_)
SumUnitsBought(rows) ==
    IF rows = <<>> THEN Zero
    ELSE RatAdd(rows[1].units_bought, SumUnitsBought(Tail(rows)))

\* the amounts due on date d
AmountsDue(d) ==
    (IF IsMonthlyPurchaseDate(d) THEN call.monthly_amount ELSE 0)
    + (IF IsInitialPurchaseDate(d) THEN call.initial_amount ELSE 0)

\* C4 as stated: each SIP row's cashflow is the sum of the amounts due that
\* day, its units_bought is that cashflow divided by the row's nav, and
\* total_units at the last row is the maximum and the sum of all units_bought.
C4_AsStated ==
    (IsSip /\ ReturnedLedger) =>
        /\ \A i \in 1..Len(Ledger) :
              /\ Ledger[i].cashflow = AmountsDue(Ledger[i].date)
              /\ Ledger[i].nav # 0
              /\ Ledger[i].units_bought
                    = RatDiv(FromInt(Ledger[i].cashflow), FromInt(Ledger[i].nav))
        /\ Ledger[Len(Ledger)].total_units = SumUnitsBought(Ledger)
        /\ \A i \in 1..Len(Ledger) :
              RatLE(Ledger[i].total_units, Ledger[Len(Ledger)].total_units)

\* C4 amended: an amount due is posted only on a row whose nav is > 0; the
\* row's cashflow is the sum of the amounts posted, units_bought is cashflow / nav
\* on rows with nav > 0 and 0 (like the cashflow) on rows with nav <= 0;
\* total_units at the last row is the sum of all units_bought, and it is the
\* maximum when monthly_amount >= 0.
C4_PostedAmounts ==
    (IsSip /\ ReturnedLedger) =>
        /\ \A i \in 1..Len(Ledger) :
              /\ Ledger[i].nav > 0 =>
                    /\ Ledger[i].cashflow = AmountsDue(Ledger[i].date)
                    /\ Ledger[i].units_bought
                          = RatDiv(FromInt(Ledger[i].cashflow), FromInt(Ledger[i].nav))
              /\ Ledger[i].nav <= 0 =>
                    /\ Ledger[i].cashflow = 0
                    /\ Ledger[i].units_bought = Zero
        /\ Ledger[Len(Ledger)].total_units = SumUnitsBought(Ledger)
        /\ call.monthly_amount >= 0 =>
              \A i \in 1..Len(Ledger) :
                  RatLE(Ledger[i].total_units, Ledger[Len(Ledger)].total_units)

\* the initial amount and a monthly amount posted on one row, and the next
\* month's purchase posted at another price
C4_Witness ==
    /\ IsSip /\ ReturnedLedger
    /\ call.monthly_amount > 0
    /\ \E i, j \in 1..Len(Ledger) :
          /\ IsMonthlyPurchaseDate(Ledger[i].date)
          /\ IsInitialPurchaseDate(Ledger[i].date)
          /\ Ledger[i].nav > 0
          /\ Ledger[i].cashflow = call.monthly_amount + call.initial_amount
          /\ j > i /\ IsMonthlyPurchaseDate(Ledger[j].date)
          /\ Ledger[j].nav > 0 /\ Ledger[j].nav # Ledger[i].nav
          /\ Ledger[j].cashflow = call.monthly_amount
          /\ Ledger[j].total_units = SumUnitsBought(Ledger)

-----------------------------------------------------------------------------
(* C7 *)

NoDataErrors == {Raise(NoDataMsg), Raise(NoNavAfterStartMsg)}

\* the cleaned rows dated within [start, end]
RowsInRange ==
    {r \in Range(NavRows) : DateLE(call.start, r.date) /\ DateLE(r.date, EffectiveEnd)}

\* C7: a simulator call on a cleaned series with no row in [start, end] fails
\* with the no-data error and never returns a ledger.  (An invalid-NAV failure
\* on the purchase day is let pass here: returning a ledger is what refutes.)
C7_FailsWithoutData ==
    ((IsLumpsum \/ IsSip) /\ CleanedOk /\ RowsInRange = {}) =>
        ret \in NoDataErrors \cup {Raise(InvalidNavMsg)}

-----------------------------------------------------------------------------
(* C8 *)

\* the cleaned rows on which a SIP purchase (monthly or initial) is due
DueRows ==
    {r \in RowsInRange : IsMonthlyPurchaseDate(r.date) \/ IsInitialPurchaseDate(r.date)}

LumpsumPriceInvalid ==
    IsLumpsum /\ CleanedOk /\ DatesFromStart # {} /\ NavOn(FirstDateFromStart) <= 0

SipPriceInvalid ==
    IsSip /\ CleanedOk /\ \E r \in DueRows : r.nav <= 0

\* C8 as stated: a call whose purchase day (lump sum, initial or monthly) has a
\* price <= 0 fails with the invalid-NAV error.
C8_AsStated ==
    (LumpsumPriceInvalid \/ SipPriceInvalid) => ret = Raise(InvalidNavMsg)

\* C8 amended: simulate_lumpsum fails with the invalid-NAV error whenever the
\* price on its purchase day is <= 0; simulate_sip never fails with that error:
\* whenever the series has a row in [start, end] it returns a ledger, in which
\* a row whose price is <= 0 posts nothing (cashflow 0, units_bought 0, and
\* total_units and cumulative_invested as on the row before).
C8_LumpsumFailsSipSkips ==
    /\ LumpsumPriceInvalid => ret = Raise(InvalidNavMsg)
    /\ IsSip => ret # Raise(InvalidNavMsg)
    /\ (IsSip /\ CleanedOk /\ RowsInRange # {}) =>
          /\ ReturnedLedger
          /\ \A i \in 1..Len(Ledger) :
                Ledger[i].nav <= 0 =>
                    /\ Ledger[i].cashflow = 0
                    /\ Ledger[i].units_bought = Zero
                    /\ Ledger[i].total_units
                          = (IF i = 1 THEN Zero ELSE Ledger[i - 1].total_units)
                    /\ Ledger[i].cumulative_invested
                          = (IF i = 1 THEN 0 ELSE Ledger[i - 1].cumulative_invested)

\* a SIP ledger in which a monthly purchase was made and a later due purchase,
\* on a day priced below zero, was skipped
C8_Witness ==
    /\ IsSip /\ ReturnedLedger
    /\ call.monthly_amount > 0
    /\ \E i, j \in 1..Len(Ledger) :
          /\ i < j
          /\ IsMonthlyPurchaseDate(Ledger[i].date) /\ Ledger[i].cashflow > 0
          /\ IsMonthlyPurchaseDate(Ledger[j].date) /\ Ledger[j].nav < 0
          /\ Ledger[j].cashflow = 0

-----------------------------------------------------------------------------
(* C9 *)

NoPurchaseDue ==
    /\ \A r \in Range(NavRows) : ~IsMonthlyPurchaseDate(r.date)
    /\ call.initial_amount <= 0

\* C9: simulate_sip fails with the no-data error when no monthly resolution
\* gives a date in [start, end] and no initial amount is invested; it returns
\* no ledger then.
C9_FailsWithoutPurchase ==
    (IsSip /\ CleanedOk /\ NoPurchaseDue) => ret \in NoDataErrors

-----------------------------------------------------------------------------
(* C10 *)

AllPricesPositive == \A r \in Range(NavRows) : r.nav > 0

\* C10: a SIP ledger starts at the earliest purchase date: its first row has a
\* non-zero cashflow, no row is dated before that purchase, and it has one row
\* for every NAV date from that date through end.  (Stated for the calls whose
\* prices are all positive and whose monthly amount is positive, so that no
\* purchase is skipped or worth nothing.)
C10_StartsAtFirstPurchase ==
    (IsSip /\ ReturnedLedger /\ DueRows # {} /\ AllPricesPositive
        /\ call.monthly_amount > 0) =>
        LET first == Earliest({r.date : r \in DueRows})
        IN  /\ Ledger[1].cashflow # 0
            /\ \A i \in 1..Len(Ledger) : DateLE(first, Ledger[i].date)
            /\ LedgerDates = {r.date : r \in {x \in RowsInRange : DateLE(first, x.date)}}

-----------------------------------------------------------------------------
(* C5 *)

Merged == merged.kind = "frame"

RECURSIVE Orderings(_)
\* every ordering of the items of the sequence s
Orderings(s) ==
    IF s = <<>> THEN {<<>>}
    ELSE UNION {{<<s[i]>> \o p :
                    p \in Orderings(SubSeq(s, 1, i - 1) \o SubSeq(s, i + 1, Len(s)))} :
                i \in 1..Len(s)}

\* the dates and the three portfolio columns of a merged ledger, row by row
Aggregates(m) ==
    [i \in 1..Len(m.rows) |->
        <<m.rows[i].date, m.rows[i].portfolio_value, m.rows[i].cashflow,
          m.rows[i].cumulative_invested>>]

LedgerAggregates(ledger) ==
    [i \in 1..Len(ledger) |->
        <<ledger[i].date, ledger[i].portfolio_value, ledger[i].cashflow,
          ledger[i].cumulative_invested>>]

\* C5: the merged ledger has the same dates and, on every date, the same
\* portfolio_value, cashflow and cumulative_invested whatever the order in
\* which the assets' ledgers are supplied; and the merge of a single asset
\* reproduces that asset's three columns on each of its dates.
C5_OrderInvariant ==
    Merged =>
        /\ \A p \in Orderings(asset_series) :
              Aggregates(merge_asset_series(p)) = Aggregates(merged)
        /\ Len(asset_series) = 1 =>
              Aggregates(merged) = LedgerAggregates(asset_series[1][2])

\* three assets whose ledgers cover different dates, the first one supplied
\* missing a date another has and starting later than another
C5_Witness ==
    /\ Merged /\ Len(asset_series) = 3
    /\ \E d \in FrameDates(merged.rows) :
          /\ d \notin {asset_series[1][2][i].date : i \in 1..Len(asset_series[1][2])}
          /\ \E e \in {asset_series[1][2][i].date : i \in 1..Len(asset_series[1][2])} :
                DateLT(d, e)
    /\ \E i, j \in 1..3 :
          {asset_series[i][2][k].date : k \in 1..Len(asset_series[i][2])}
              # {asset_series[j][2][k].date : k \in 1..Len(asset_series[j][2])}

-----------------------------------------------------------------------------
(* C6 *)

DatesOf(ledger) == {ledger[i].date : i \in 1..Len(ledger)}

RowOn(ledger, d) == CHOOSE r \in Range(ledger) : r.date = d

\* the asset's latest own date <= d (defined when it has one)
LatestUpTo(ledger, d) == Latest({e \in DatesOf(ledger) : DateLE(e, d)})

HasRowUpTo(ledger, d) == \E e \in DatesOf(ledger) : DateLE(e, d)

RECURSIVE ExpectedValue(_, _)
\* the sum over the assets of the valuation at the asset's latest date <= d
ExpectedValue(series, d) ==
    IF series = <<>> THEN Zero
    ELSE RatAdd(IF HasRowUpTo(series[1][2], d)
                THEN RowOn(series[1][2], LatestUpTo(series[1][2], d)).portfolio_value
                ELSE Zero,
                ExpectedValue(Tail(series), d))

RECURSIVE ExpectedInvested(_, _)
ExpectedInvested(series, d) ==
    IF series = <<>> THEN 0
    ELSE (IF HasRowUpTo(series[1][2], d)
          THEN RowOn(series[1][2], LatestUpTo(series[1][2], d)).cumulative_invested
          ELSE 0)
         + ExpectedInvested(Tail(series), d)

RECURSIVE ExpectedCashflow(_, _)
\* the sum over the assets of the cashflow of the asset's row dated exactly d
ExpectedCashflow(series, d) ==
    IF series = <<>> THEN 0
    ELSE (IF d \in DatesOf(series[1][2]) THEN RowOn(series[1][2], d).cashflow ELSE 0)
         + ExpectedCashflow(Tail(series), d)

\* C6: the merged ledger has exactly one row per date of the union of the
\* assets' ledger dates, ascending; on each date portfolio_value and
\* cumulative_invested sum the assets' values at their latest own date <= d
\* (0 when there is none) and cashflow sums the assets' cashflows on exactly d;
\* zero assets give an empty ledger with only a date column.
C6_MergedRows ==
    Merged =>
        /\ FrameDates(merged.rows)
              = UNION {DatesOf(asset_series[i][2]) : i \in 1..Len(asset_series)}
        /\ \A i \in 1..(Len(merged.rows) - 1) :
              DateLT(merged.rows[i].date, merged.rows[i + 1].date)
        /\ \A i \in 1..Len(merged.rows) :
              LET d == merged.rows[i].date
              IN  /\ merged.rows[i].portfolio_value = ExpectedValue(asset_series, d)
                  /\ merged.rows[i].cumulative_invested = ExpectedInvested(asset_series, d)
                  /\ merged.rows[i].cashflow = ExpectedCashflow(asset_series, d)
        /\ asset_series = <<>> =>
              merged.rows = <<>> /\ merged.columns = {<<"date">>}

\* a merged row on a date where one asset has no row but an earlier one with a
\* cashflow and a valuation, which is carried while the cashflow is not
C6_Witness ==
    /\ Merged /\ Len(asset_series) >= 2
    /\ \E i \in 1..Len(merged.rows), k \in 1..Len(asset_series) :
          LET d == merged.rows[i].date
              ledger == asset_series[k][2]
          IN  /\ d \notin DatesOf(ledger)
              /\ HasRowUpTo(ledger, d)
              /\ RowOn(ledger, LatestUpTo(ledger, d)).cashflow > 0
              /\ RatLT(Zero, RowOn(ledger, LatestUpTo(ledger, d)).portfolio_value)
              /\ \E e \in DatesOf(ledger) : DateLT(d, e)
              /\ merged.rows[i].cashflow < ExpectedInvested(asset_series, d)

-----------------------------------------------------------------------------
(* C11 *)

\* the calendar months of the years of the call
CalendarMonths == {<<y, m>> : y \in call.start[1]..call.end[1], m \in 1..12}

InRange(d) == DateLE(call.start, d) /\ DateLE(d, call.end)

\* the date the resolver gives for month ym and the SIP day of the call
ResolvedIn(ym) == _next_trading_day_in_month(NavRows, ym[1], ym[2], call.sip_day)

\* the in-range dates resolved over a set of months
ResolvedWithin(months) ==
    {d \in {ResolvedIn(ym) : ym \in months} : d # NoDate /\ InRange(d)}

\* the months whose first day lies in [start, end]
MonthsStartingInRange == {ym \in CalendarMonths : InRange(<<ym[1], ym[2], 1>>)}

\* the months from the month of start to the last month beginning on or before
\* end
MonthsFromStartMonth ==
    {ym \in CalendarMonths :
        /\ DateLE(<<call.start[1], call.start[2], 1>>, <<ym[1], ym[2], 1>>)
        /\ DateLE(<<ym[1], ym[2], 1>>, call.end)}

\* the monthly purchase dates simulate_sip uses in the call
UsedInvestDates == InvestDates(NavRows, call.sip_day, call.start, call.end)

\* the monthly amount is posted on the ledger row of date d
MonthlyPosted(i) ==
    Ledger[i].cashflow
        = call.monthly_amount
          + (IF IsInitialPurchaseDate(Ledger[i].date) THEN call.initial_amount ELSE 0)

\* C11 as stated: the monthly purchase dates of simulate_sip are the in-range
\* dates resolved over the months whose first day lies in [start, end].
C11_AsStated ==
    (IsSip /\ CleanedOk) => UsedInvestDates = ResolvedWithin(MonthsStartingInRange)

\* C11 amended: the monthly purchase dates of simulate_sip are the in-range
\* dates resolved over the months from the month containing start to the last
\* month that begins on or before end; a month resolving to none or out of
\* range adds no purchase and no error, each month adds at most one purchase
\* date, and on the ledger rows priced above zero the monthly amount is posted
\* exactly on those dates.
C11_MonthsFromStartMonth ==
    (IsSip /\ CleanedOk) =>
        /\ UsedInvestDates = ResolvedWithin(MonthsFromStartMonth)
        /\ \A d, e \in UsedInvestDates : (d[1] = e[1] /\ d[2] = e[2]) => d = e
        /\ (\E r \in Range(NavRows) : InRange(r.date)) =>
              (call.initial_amount = 0 => ReturnedLedger)
        /\ (ReturnedLedger /\ call.monthly_amount # 0) =>
              \A i \in 1..Len(Ledger) :
                  Ledger[i].nav > 0 =>
                      (MonthlyPosted(i) <=> Ledger[i].date \in UsedInvestDates)

\* a SIP starting in mid month that buys in the month of start and in a later
\* month, while another month of the range resolves to none
C11_Witness ==
    /\ IsSip /\ ReturnedLedger /\ call.monthly_amount > 0
    /\ call.start[3] > 1
    /\ \E i, j \in 1..Len(Ledger) :
          /\ Ledger[i].date[2] = call.start[2] /\ Ledger[i].date[1] = call.start[1]
          /\ Ledger[i].date \in UsedInvestDates /\ MonthlyPosted(i)
          /\ j > i /\ Ledger[j].date \in UsedInvestDates /\ MonthlyPosted(j)
    /\ \E ym \in MonthsFromStartMonth : ResolvedIn(ym) = NoDate

-----------------------------------------------------------------------------
(* analytics/metrics.py and analytics/rolling.py *)

\* A ledger handed to the analytics layer is [columns, rows]; a row carries
\* date, portfolio_value (a rational) and, when the ledger has the column,
\* cashflow (an integer).  A float result is Num(r) for the rational r, NaN
\* (NotANumber) or an infinity; Absent is Python's None; Number stands for a
\* float whose value involves a root or a power and is not computed here.

\* largest number of rows of a ledger handed to the analytics layer
MaxLedgerRows == 3

Num(r) == [kind |-> "num", v |-> r]

NotANumber == [kind |-> "nan"]

Infinity(s) == [kind |-> "inf", sign |-> s]

Absent == [kind |-> "absent"]

Number == [kind |-> "float"]

RatSub(a, b) == RatAdd(a, RatMul(FromInt(-1), b))

\* IEEE division of the float a by the float b, both finite
FloatDiv(a, b) ==
    IF b # Zero THEN Num(RatDiv(a, b))
    ELSE IF a = Zero THEN NotANumber
    ELSE Infinity(IF RatLT(Zero, a) THEN 1 ELSE -1)

\* a < b for floats other than NaN
FloatLess(a, b) ==
    IF a.kind = "num" /\ b.kind = "num" THEN RatLT(a.v, b.v)
    ELSE IF a.kind = "inf" /\ b.kind = "inf" THEN a.sign < b.sign
    ELSE IF a.kind = "inf" THEN a.sign < 0
    ELSE b.sign > 0

\* x * 100.0
TimesHundred(x) ==
    IF x.kind = "num" THEN Num(RatMul(x.v, FromInt(100))) ELSE x

\* date.toordinal(): the number of the day, day 1 being 0001-01-01
ToOrdinal(d) ==
    LET y == d[1] - 1
        before == {m \in 1..12 : m < d[2]}
        DaysBefore[S \in SUBSET before] ==
            IF S = {} THEN 0
            ELSE LET m == CHOOSE x \in S : TRUE
                 IN  DaysInMonth(d[1], m) + DaysBefore[S \ {m}]
    IN  365 * y + (y \div 4) - (y \div 100) + (y \div 400) + DaysBefore[before] + d[3]

MissingLedgerColumnsMsg == "portfolio_daily must contain 'date' and 'portfolio_value' columns"
MissingCashflowMsg == "portfolio_daily must include 'cashflow' column to compute XIRR"
IndexOutOfBoundsMsg == "single positional indexer is out-of-bounds"
NanToIntegerMsg == "cannot convert float NaN to integer"
KeyErrorMsg == "KeyError"

_ensure_df(df) ==
    IF "date" \notin df.columns \/ "portfolio_value" \notin df.columns
    THEN Raise(MissingLedgerColumnsMsg)
    ELSE ReturnFrame(SortByDate(df.rows))

\* every non-zero cashflow counted as capital contributed
IsNonZeroCashflow(cashflow) == cashflow # 0

\* df['cashflow'] > 0
IsInvestment(cashflow) == cashflow > 0

RECURSIVE SumInvested(_)
\* df.loc[df['cashflow'] > 0, 'cashflow'].sum()
SumInvested(rows) ==
    IF rows = <<>> THEN 0
    ELSE (IF IsInvestment(rows[1].cashflow) THEN rows[1].cashflow ELSE 0)
         + SumInvested(Tail(rows))

final_and_invested(df) ==
    LET ensured == _ensure_df(df)
    IN  IF ensured.kind = "error" THEN ensured
        ELSE IF ensured.rows = <<>> THEN Raise(IndexOutOfBoundsMsg)
        ELSE [kind |-> "pair",
              final_value |-> ensured.rows[Len(ensured.rows)].portfolio_value,
              invested |-> IF "cashflow" \in df.columns THEN SumInvested(ensured.rows)
                           ELSE 0]

\* final / invested - 1.0, or None
TotalReturn(final, invested) ==
    IF invested = 0 THEN Absent
    ELSE Num(RatSub(RatDiv(final, FromInt(invested)), FromInt(1)))

\* cagr of a ledger that passed _ensure_df with at least one row
cagr(df) ==
    LET rows == _ensure_df(df).rows
        start_val == rows[1].portfolio_value
        days == ToOrdinal(rows[Len(rows)].date) - ToOrdinal(rows[1].date)
    IN  IF days <= 0 \/ RatLE(start_val, Zero) THEN Absent ELSE Number

\* the change of cur against prev as a difference, not a ratio
PctChangeAsDifference(prev, cur) == Num(RatSub(cur, prev))

\* pct_change of cur against prev: cur / prev - 1
PctChange(prev, cur) ==
    LET q == FloatDiv(cur, prev)
    IN  IF q.kind = "num" THEN Num(RatSub(q.v, FromInt(1))) ELSE q

\* the daily returns of the sorted rows: pct_change().fillna(0.0)
daily_returns(rows) ==
    [i \in 1..Len(rows) |->
        IF i = 1 THEN Num(Zero)
        ELSE LET c == PctChange(rows[i - 1].portfolio_value, rows[i].portfolio_value)
             IN  IF c.kind = "nan" THEN Num(Zero) ELSE c]

\* np.nanstd(ret, ddof=1) * np.sqrt(freq): 0.0 when two or more returns are
\* all equal (all 0, as the first one is), else some float (NaN for one row or
\* for an infinite return)
volatility_annualized(df) ==
    LET ret_ == daily_returns(_ensure_df(df).rows)
    IN  IF Len(ret_) >= 2 /\ \A i \in 1..Len(ret_) : ret_[i] = Num(Zero)
        THEN Num(Zero) ELSE Number

sharpe_ratio(df) ==
    IF volatility_annualized(df) = Num(Zero) THEN Absent ELSE Number

\* pv.cummax() at row i
CumMax(rows, i) ==
    LET seen == {rows[j].portfolio_value : j \in 1..i}
    IN  CHOOSE v \in seen : \A w \in seen : RatLE(w, v)

\* (pv - cummax) / cummax at row i
Drawdown(rows, i) ==
    FloatDiv(RatSub(rows[i].portfolio_value, CumMax(rows, i)), CumMax(rows, i))

\* the smallest element of a non-empty set of row indices
FirstIndex(S) == CHOOSE i \in S : \A j \in S : i <= j

max_drawdown(df) ==
    LET ensured == _ensure_df(df)
    IN  IF ensured.kind = "error" THEN ensured
        ELSE
        LET rows == ensured.rows
            valid == {i \in 1..Len(rows) : Drawdown(rows, i).kind # "nan"}
            lowest == {i \in valid : \A j \in valid :
                           ~FloatLess(Drawdown(rows, j), Drawdown(rows, i))}
            trough_idx == FirstIndex(lowest)
            highest == {i \in 1..trough_idx : \A j \in 1..trough_idx :
                            RatLE(rows[j].portfolio_value, rows[i].portfolio_value)}
            peak_idx == FirstIndex(highest)
        IN  IF valid = {} THEN Raise(NanToIntegerMsg)
            ELSE [kind |-> "drawdown",
                  min_dd |-> Drawdown(rows, trough_idx),
                  peak_date |-> rows[peak_idx].date,
                  trough_date |-> rows[trough_idx].date]

\* whether xirr_from_portfolio raises before its bisection: the bisection
\* itself always ends with a float (see the solver below)
XirrOutcome(df) ==
    IF "cashflow" \notin df.columns THEN Raise(MissingCashflowMsg) ELSE Number

summary_metrics(df) ==
    LET fi == final_and_invested(df)
        dd == max_drawdown(df)
        total_ret == TotalReturn(fi.final_value, fi.invested)
        xirr_val == IF XirrOutcome(df).kind = "error" THEN Absent ELSE XirrOutcome(df)
    IN  IF fi.kind = "error" THEN fi
        ELSE IF dd.kind = "error" THEN dd
        ELSE [kind |-> "metrics",
              final_value |-> fi.final_value,
              invested |-> fi.invested,
              total_return_pct |-> IF total_ret = Absent THEN Absent
                                   ELSE TimesHundred(total_ret),
              cagr_pct |-> cagr(df),
              max_drawdown_pct |-> TimesHundred(dd.min_dd),
              volatility_pct |-> volatility_annualized(df),
              sharpe |-> sharpe_ratio(df),
              xirr_pct |-> xirr_val]

\* entry i of pct_change(periods=window_days) over the sorted rows
RollingEntry(rows, i, window_days) ==
    IF i - window_days \notin 1..Len(rows) THEN NotANumber
    ELSE PctChange(rows[i - window_days].portfolio_value, rows[i].portfolio_value)

rolling_periodic_returns(df, window_days) ==
    IF "date" \notin df.columns \/ "portfolio_value" \notin df.columns
    THEN Raise(KeyErrorMsg)
    ELSE LET rows == SortByDate(df.rows)
         IN  ReturnFrame([i \in 1..Len(rows) |->
                             [date |-> rows[i].date,
                              rolling_return |-> RollingEntry(rows, i, window_days)]])

-----------------------------------------------------------------------------
(* The analytics layer applied to a ledger *)

\* the date of the i-th row of a ledger
LedgerDate(i) == <<2024, 1, 9 + i>>

Valuations == {0, 1, 2}

Cashflows == {-1, 0, 2}

WindowDays == {0, 1, 2, 5}

Reversed(s) == [i \in 1..Len(s) |-> s[Len(s) + 1 - i]]

\* ledgers of at most MaxLedgerRows rows on consecutive days, oldest or newest
\* row first, with or without the cashflow column; and two ledgers lacking a
\* required column
LedgerTables ==
    LET full == UNION {[1..n -> Valuations \X Cashflows] : n \in 0..MaxLedgerRows}
        bare == UNION {[1..n -> Valuations] : n \in 1..MaxLedgerRows}
        FullRows(f) == [i \in 1..Len(f) |->
                           [date |-> LedgerDate(i), portfolio_value |-> FromInt(f[i][1]),
                            cashflow |-> f[i][2]]]
        BareRows(f) == [i \in 1..Len(f) |->
                           [date |-> LedgerDate(i), portfolio_value |-> FromInt(f[i])]]
    IN  {[columns |-> {"date", "portfolio_value", "cashflow"}, rows |-> r] :
            r \in {FullRows(f) : f \in full} \cup {Reversed(FullRows(f)) : f \in full}}
        \cup {[columns |-> {"date", "portfolio_value"}, rows |-> r] :
                r \in {BareRows(f) : f \in bare} \cup {Reversed(BareRows(f)) : f \in bare}}
        \cup {[columns |-> {"date", "cashflow"},
               rows |-> <<[date |-> LedgerDate(1), cashflow |-> 2]>>],
              [columns |-> {"portfolio_value", "cashflow"},
               rows |-> <<[portfolio_value |-> FromInt(1), cashflow |-> 2]>>]}

InitMetrics ==
    /\ nav_df = [columns |-> {"date", "nav"}, rows |-> <<>>]
    /\ call = NoCall
    /\ ret = NoRet
    /\ asset_series = <<>>
    /\ merged = NoRet
    /\ portfolio_daily \in LedgerTables
    /\ low = <<>> /\ high = <<>> /\ step = 0
    /\ FetchIdle

SummaryMetrics ==
    /\ call = NoCall
    /\ call' = [op |-> "summary_metrics"]
    /\ ret' = summary_metrics(portfolio_daily)
    /\ UNCHANGED <<nav_df, asset_series, merged, analyticsVars, fetchVars>>

MaxDrawdown ==
    /\ call = NoCall
    /\ call' = [op |-> "max_drawdown"]
    /\ ret' = max_drawdown(portfolio_daily)
    /\ UNCHANGED <<nav_df, asset_series, merged, analyticsVars, fetchVars>>

RollingPeriodicReturns ==
    /\ call = NoCall
    /\ \E window_days \in WindowDays :
          /\ call' = [op |-> "rolling_periodic_returns", window_days |-> window_days]
          /\ ret' = rolling_periodic_returns(portfolio_daily, window_days)
    /\ UNCHANGED <<nav_df, asset_series, merged, analyticsVars, fetchVars>>

NextMetrics == SummaryMetrics \/ MaxDrawdown \/ RollingPeriodicReturns

SpecMetrics == InitMetrics /\ [][NextMetrics]_vars

-----------------------------------------------------------------------------
(* Vocabulary of the analytics properties *)

IsSummary == call.op = "summary_metrics"

IsMaxDrawdown == call.op = "max_drawdown"

IsRolling == call.op = "rolling_periodic_returns"

HasLedgerColumns == {"date", "portfolio_value"} \subseteq portfolio_daily.columns

\* the rows of the ledger, as given
GivenRows == portfolio_daily.rows

GivenDates == {GivenRows[i].date : i \in 1..Len(GivenRows)}

\* the valuation of the ledger on date d
ValuationOn(d) == (CHOOSE r \in Range(GivenRows) : r.date = d).portfolio_value

\* the valuation of the last row in date order
FinalValuation == ValuationOn(Latest(GivenDates))

\* the sum of the strictly positive cashflows of the ledger (0 without the
\* cashflow column)
PositiveCashflowTotal ==
    LET Total[S \in SUBSET (1..Len(GivenRows))] ==
            IF S = {} THEN 0
            ELSE LET i == CHOOSE x \in S : TRUE
                 IN  GivenRows[i].cashflow + Total[S \ {i}]
    IN  IF "cashflow" \notin portfolio_daily.columns THEN 0
        ELSE Total[{i \in 1..Len(GivenRows) : GivenRows[i].cashflow > 0}]

-----------------------------------------------------------------------------
(* C12 *)

\* C12: in a summary_metrics result, total_return_pct is absent exactly when
\* invested, the sum of the strictly positive cashflows of the ledger, is 0;
\* otherwise it is (final valuation / invested - 1) * 100, the final valuation
\* being the portfolio_value of the last row; negative cashflows are not part
\* of invested.
C12_TotalReturnPct ==
    (IsSummary /\ ret.kind = "metrics") =>
        /\ ret.invested = PositiveCashflowTotal
        /\ ret.total_return_pct = Absent <=> PositiveCashflowTotal = 0
        /\ PositiveCashflowTotal # 0 =>
              ret.total_return_pct
                  = Num(RatMul(RatSub(RatDiv(FinalValuation,
                                             FromInt(PositiveCashflowTotal)),
                                      FromInt(1)),
                               FromInt(100)))

\* a result for a ledger given newest row first that has a contribution and a
\* withdrawal and whose return is neither 0 nor -100 percent
C12_Witness ==
    /\ IsSummary /\ ret.kind = "metrics"
    /\ "cashflow" \in portfolio_daily.columns
    /\ Len(GivenRows) >= 2
    /\ DateLT(GivenRows[2].date, GivenRows[1].date)
    /\ \E i, j \in 1..Len(GivenRows) :
          GivenRows[i].cashflow > 0 /\ GivenRows[j].cashflow < 0
    /\ ret.total_return_pct.kind = "num"
    /\ ret.total_return_pct.v \notin {Zero, FromInt(-100)}

-----------------------------------------------------------------------------
(* C13 *)

\* the running maximum of the valuation at date d
RunningMaxOn(d) ==
    LET seen == {ValuationOn(e) : e \in {x \in GivenDates : DateLE(x, d)}}
    IN  CHOOSE v \in seen : \A w \in seen : RatLE(w, v)

\* the drawdown at date d of a ledger with positive valuations
DrawdownOn(d) == RatDiv(RatSub(ValuationOn(d), RunningMaxOn(d)), RunningMaxOn(d))

PositiveValuations ==
    \A i \in 1..Len(GivenRows) : RatLT(Zero, GivenRows[i].portfolio_value)

\* the minimum drawdown and the earliest date attaining it
MinimumDrawdownAndTrough ==
    /\ ret.min_dd.kind = "num"
    /\ RatLE(ret.min_dd.v, Zero)
    /\ \A d \in GivenDates : RatLE(ret.min_dd.v, DrawdownOn(d))
    /\ ret.trough_date
          = Earliest({d \in GivenDates : DrawdownOn(d) = ret.min_dd.v})

\* C13: for a ledger with positive valuations max_drawdown returns the minimum
\* over rows of (valuation - running max) / running max, which is <= 0, the
\* earliest date attaining it as trough date, and as peak date the last date
\* at or before the trough whose valuation equals the running maximum at the
\* trough.
C13_LastPeakBeforeTrough ==
    (IsMaxDrawdown /\ ret.kind = "drawdown" /\ PositiveValuations) =>
        /\ MinimumDrawdownAndTrough
        /\ ret.peak_date
              = Latest({d \in GivenDates :
                           /\ DateLE(d, ret.trough_date)
                           /\ ValuationOn(d) = RunningMaxOn(ret.trough_date)})

\* what max_drawdown does return for such a ledger: the minimum drawdown, the
\* earliest trough, and the earliest date at or before the trough whose
\* valuation equals the running maximum at the trough
C13_FirstPeakBeforeTrough ==
    (IsMaxDrawdown /\ ret.kind = "drawdown" /\ PositiveValuations) =>
        /\ MinimumDrawdownAndTrough
        /\ ret.peak_date
              = Earliest({d \in GivenDates :
                             /\ DateLE(d, ret.trough_date)
                             /\ ValuationOn(d) = RunningMaxOn(ret.trough_date)})

-----------------------------------------------------------------------------
(* C14 *)

\* C14: summary_metrics returns a result for every ledger with at least one
\* row and the date and portfolio_value columns, a ledger whose valuation is 0
\* on every row included, each undefined metric being reported as absent; it
\* raises only when the date or the portfolio_value column is missing.
C14_NeverAborts ==
    IsSummary =>
        /\ (HasLedgerColumns /\ GivenRows # <<>>) =>
              /\ ret.kind = "metrics"
              /\ PositiveCashflowTotal = 0 => ret.total_return_pct = Absent
              /\ "cashflow" \notin portfolio_daily.columns => ret.xirr_pct = Absent
              /\ (Len(GivenRows) = 1 \/ ~RatLT(Zero, ValuationOn(Earliest(GivenDates)))) =>
                    ret.cagr_pct = Absent
              /\ ret.volatility_pct = Num(Zero) => ret.sharpe = Absent
        /\ ~HasLedgerColumns => ret.kind = "error"

\* what holds instead: summary_metrics raises for a ledger valued 0 on every
\* row, and returns a result with the undefined metrics absent for every other
\* ledger with a row and the two columns
C14_AbortsOnlyWhenAllZero ==
    (IsSummary /\ HasLedgerColumns /\ GivenRows # <<>>) =>
        IF \A d \in GivenDates : ValuationOn(d) = Zero
        THEN ret = Raise(NanToIntegerMsg)
        ELSE /\ ret.kind = "metrics"
             /\ PositiveCashflowTotal = 0 => ret.total_return_pct = Absent
             /\ "cashflow" \notin portfolio_daily.columns => ret.xirr_pct = Absent
             /\ (Len(GivenRows) = 1 \/ ~RatLT(Zero, ValuationOn(Earliest(GivenDates)))) =>
                   ret.cagr_pct = Absent
             /\ ret.volatility_pct = Num(Zero) => ret.sharpe = Absent

-----------------------------------------------------------------------------
(* C16 *)

\* the valuations of the ledger in date order
ValuationsByDate ==
    LET dates == SetToSortedSeq(GivenDates)
    IN  [i \in 1..Len(dates) |-> ValuationOn(dates[i])]

\* C16: rolling_periodic_returns returns one entry per ledger row, ordered by
\* date; counting rows from 0, entry i is undefined for i < window_days and is
\* valuation[i] / valuation[i - window_days] - 1 for i >= window_days (not a
\* finite number when that earlier valuation is 0).
C16_RollingReturns ==
    (IsRolling /\ ret.kind = "frame") =>
        /\ Len(ret.rows) = Len(GivenRows)
        /\ \A k \in 1..Len(ret.rows) :
              LET w == call.window_days
                  v == ValuationsByDate
              IN  /\ ret.rows[k].date = SetToSortedSeq(GivenDates)[k]
                  /\ k - 1 < w => ret.rows[k].rolling_return = NotANumber
                  /\ (k - 1 >= w /\ v[k - w] # Zero) =>
                        ret.rows[k].rolling_return
                            = Num(RatSub(RatDiv(v[k], v[k - w]), FromInt(1)))
                  /\ (k - 1 >= w /\ v[k - w] = Zero) =>
                        ret.rows[k].rolling_return.kind # "num"

\* a ledger given newest row first, with a window of one row: the first entry
\* undefined, the later ones a gain and a loss
C16_Witness ==
    /\ IsRolling /\ ret.kind = "frame"
    /\ call.window_days = 1 /\ Len(ret.rows) = 3
    /\ DateLT(GivenRows[2].date, GivenRows[1].date)
    /\ ret.rows[1].rolling_return = NotANumber
    /\ ret.rows[2].rolling_return.kind = "num"
    /\ ret.rows[3].rolling_return.kind = "num"
    /\ RatLT(Zero, ret.rows[2].rolling_return.v)
    /\ RatLT(ret.rows[3].rolling_return.v, Zero)

-----------------------------------------------------------------------------
(* analytics/metrics.py: xirr_from_portfolio *)

\* The bracket of the bisection is held as IEEE doubles, exactly: a double is
\* [neg, mag], mag the bits of its magnitude as a binary fixed-point number,
\* most significant bit first, IntBits bits before the point and FracBits
\* after it.  -0.9999 has 53 bits after the point and each of the 100 halvings
\* adds at most one, as does the final midpoint.  The sum low + high is rounded
\* to nearest-even at 53 significant bits as the hardware does; the sign of
\* the net present value is computed exactly at the double mid, for cashflow
\* schedules whose year fractions are 0 or 1.

\* range(100)
Iterations == 100

\* significant bits of a double
Precision == 53

IntBits == 5

FracBits == 154

Width == IntBits + FracBits

ZeroMag == [i \in 1..Width |-> 0]

\* the bit of weight 2^(IntBits - i) alone
UnitAt(i) == [j \in 1..Width |-> IF j = i THEN 1 ELSE 0]

Double(neg, mag) == [neg |-> neg /\ mag # ZeroMag, mag |-> mag]

RECURSIVE MagAddRange(_, _, _, _, _)
\* <<carry out, sum bits>> of the bits i..j of a and b with the carry c coming
\* in from the right; the range is split in two to keep the nesting shallow
MagAddRange(a, b, i, j, c) ==
    IF i = j THEN <<(a[i] + b[i] + c) \div 2, <<(a[i] + b[i] + c) % 2>>>>
    ELSE LET m == (i + j) \div 2
             right == MagAddRange(a, b, m + 1, j, c)
             left == IF right[1] = 0 THEN MagAddRange(a, b, i, m, 0)
                     ELSE MagAddRange(a, b, i, m, 1)
         IN  <<left[1], left[2] \o right[2]>>

MagAdd(a, b) == MagAddRange(a, b, 1, Width, 0)[2]

RECURSIVE MagSubRange(_, _, _, _, _)
\* <<borrow out, difference bits>> of the bits i..j of a and b with the borrow
\* c coming in from the right
MagSubRange(a, b, i, j, c) ==
    IF i = j THEN <<IF a[i] - b[i] - c < 0 THEN 1 ELSE 0, <<(a[i] - b[i] - c + 2) % 2>>>>
    ELSE LET m == (i + j) \div 2
             right == MagSubRange(a, b, m + 1, j, c)
             left == IF right[1] = 0 THEN MagSubRange(a, b, i, m, 0)
                     ELSE MagSubRange(a, b, i, m, 1)
         IN  <<left[1], left[2] \o right[2]>>

\* a - b for a >= b
MagSub(a, b) == MagSubRange(a, b, 1, Width, 0)[2]

RECURSIVE MagLessRange(_, _, _, _)
\* the bits i..j of a are below those of b
MagLessRange(a, b, i, j) ==
    IF i = j THEN a[i] < b[i]
    ELSE LET m == (i + j) \div 2
         IN  IF SubSeq(a, i, m) = SubSeq(b, i, m) THEN MagLessRange(a, b, m + 1, j)
             ELSE MagLessRange(a, b, i, m)

MagLess(a, b) == MagLessRange(a, b, 1, Width)

\* x < y
DoubleLess(x, y) ==
    IF x.neg # y.neg THEN x.neg
    ELSE IF x.neg THEN MagLess(y.mag, x.mag)
    ELSE MagLess(x.mag, y.mag)

DoubleLE(x, y) == x = y \/ DoubleLess(x, y)

Negated(x) == Double(~x.neg, x.mag)

\* x + y, exactly
ExactSum(x, y) ==
    IF x.neg = y.neg THEN Double(x.neg, MagAdd(x.mag, y.mag))
    ELSE IF MagLess(x.mag, y.mag) THEN Double(y.neg, MagSub(y.mag, x.mag))
    ELSE Double(x.neg, MagSub(x.mag, y.mag))

\* the index of the first 1 of mag, Width + 1 if there is none
LeadingOne(mag) ==
    LET ones == {i \in 1..Width : mag[i] = 1}
    IN  IF ones = {} THEN Width + 1 ELSE CHOOSE i \in ones : \A j \in ones : i <= j

\* x rounded to the nearest double, ties to even
RoundToDouble(x) ==
    LET q == LeadingOne(x.mag) + Precision - 1
        kept == [i \in 1..Width |-> IF i <= q THEN x.mag[i] ELSE 0]
        sticky == \E i \in (q + 2)..Width : x.mag[i] = 1
        up == x.mag[q + 1] = 1 /\ (sticky \/ x.mag[q] = 1)
    IN  IF q >= Width THEN x
        ELSE Double(x.neg, IF up THEN MagAdd(kept, UnitAt(q)) ELSE kept)

\* x / 2.0
Halved(x) == Double(x.neg, <<0>> \o SubSeq(x.mag, 1, Width - 1))

\* low + high, not divided by 2
MidpointNotHalved(lo, hi) == RoundToDouble(ExactSum(lo, hi))

\* (low + high) / 2.0
Midpoint(lo, hi) == Halved(RoundToDouble(ExactSum(lo, hi)))

\* the four bits of a hexadecimal digit
HexBits(h) == <<(h \div 8) % 2, (h \div 4) % 2, (h \div 2) % 2, h % 2>>

\* the double -0.9999, that is -0x1.fff2e48e8a71ep-1
LowBound ==
    LET hex == <<15, 15, 15, 2, 14, 4, 8, 14, 8, 10, 7, 1, 14>>
        frac == <<1>> \o HexBits(hex[1]) \o HexBits(hex[2]) \o HexBits(hex[3])
                \o HexBits(hex[4]) \o HexBits(hex[5]) \o HexBits(hex[6])
                \o HexBits(hex[7]) \o HexBits(hex[8]) \o HexBits(hex[9])
                \o HexBits(hex[10]) \o HexBits(hex[11]) \o HexBits(hex[12])
                \o HexBits(hex[13])
    IN  Double(TRUE, [i \in 1..Width |->
                        IF i > IntBits /\ i - IntBits <= Len(frac)
                        THEN frac[i - IntBits] ELSE 0])

\* the double 10.0
HighBound ==
    Double(FALSE, [i \in 1..Width |-> IF i \in {IntBits - 3, IntBits - 1} THEN 1 ELSE 0])

RECURSIVE FractionBits(_, _, _)
\* <<the first k bits after the point of r / d, the remainder left>>, r < d
FractionBits(r, d, k) ==
    IF k = 1 THEN <<<<IF 2 * r >= d THEN 1 ELSE 0>>,
                    IF 2 * r >= d THEN 2 * r - d ELSE 2 * r>>
    ELSE LET first == FractionBits(r, d, k \div 2)
             second == FractionBits(first[2], d, k - k \div 2)
         IN  IF first[2] >= 0 THEN <<first[1] \o second[1], second[2]>> ELSE <<>>

\* the magnitude mag against n / d (n >= 0, d > 0): "lt", "eq" or "gt"
MagAgainst(mag, n, d) ==
    LET k == n \div d
        frac == FractionBits(n % d, d, FracBits)
        bits == [i \in 1..IntBits |-> (k \div (2 ^ (IntBits - i))) % 2] \o frac[1]
    IN  IF k >= 2 ^ IntBits THEN "lt"
        ELSE IF MagLess(mag, bits) THEN "lt"
        ELSE IF MagLess(bits, mag) THEN "gt"
        ELSE IF frac[2] > 0 THEN "lt" ELSE "eq"

\* the double x against the rational c: "lt", "eq" or "gt"
Against(x, c) ==
    IF c.n < 0
    THEN IF ~x.neg THEN "gt"
         ELSE LET m == MagAgainst(x.mag, -c.n, c.d)
              IN  IF m = "lt" THEN "gt" ELSE IF m = "gt" THEN "lt" ELSE "eq"
    ELSE IF x.neg THEN "lt" ELSE MagAgainst(x.mag, c.n, c.d)

\* (d1 - d0).days / 365.0
_year_frac(d0, d1) == Rat(ToOrdinal(d1) - ToOrdinal(d0), 365)

\* the cashflow schedule: -cashflow of each row with a cashflow, then the final
\* valuation on the last date, sorted by date
Schedule(rows) ==
    LET HasCashflow(r) == r.cashflow # 0
        picked == SelectSeq(rows, HasCashflow)
        outflows == [i \in 1..Len(picked) |->
                        [date |-> picked[i].date, amount |-> FromInt(-picked[i].cashflow)]]
    IN  SortByDate(Append(outflows, [date |-> rows[Len(rows)].date,
                                     amount |-> rows[Len(rows)].portfolio_value]))

RECURSIVE AmountAt(_, _, _)
\* the sum of the amounts of the schedule falling yrs years after its start
AmountAt(cflows, i, yrs) ==
    IF i > Len(cflows) THEN Zero
    ELSE RatAdd(IF _year_frac(cflows[1].date, cflows[i].date) = yrs
                THEN cflows[i].amount ELSE Zero,
                AmountAt(cflows, i + 1, yrs))

\* npv(rate) > 0 for a schedule with amounts s0 at 0 years and s1 at 1 year:
\* s0 + s1 / (1 + rate) > 0, that is s0 * rate > -(s0 + s1), as 1 + rate > 0
\* on the bracket
NpvPositive(cflows, rate) ==
    LET s0 == AmountAt(cflows, 1, FromInt(0))
        s1 == AmountAt(cflows, 1, FromInt(1))
        root == RatDiv(RatMul(FromInt(-1), RatAdd(s0, s1)), s0)
    IN  IF s0 = Zero THEN RatLT(Zero, s1)
        ELSE IF RatLT(Zero, s0) THEN Against(rate, root) = "gt"
        ELSE Against(rate, root) = "lt"

\* the bracket narrowed the wrong way round
NarrowedTheWrongWay(lo, hi, mid, positive) ==
    IF positive THEN <<lo, mid>> ELSE <<mid, hi>>

\* if val > 0: low = mid, else: high = mid
Narrowed(lo, hi, mid, positive) ==
    IF positive THEN <<mid, hi>> ELSE <<lo, mid>>

\* for _ in range(100)
InLoop(i) == i < Iterations

-----------------------------------------------------------------------------
(* The rate solver applied to a ledger, one bisection step at a time *)

FirstDay == <<2023, 1, 1>>

\* 365 days after FirstDay
AnniversaryDay == <<2024, 1, 1>>

\* a ledger of one contribution a on FirstDay valued f a year later
GrowthLedger(a, f) ==
    <<[date |-> FirstDay, portfolio_value |-> FromInt(a), cashflow |-> a],
      [date |-> AnniversaryDay, portfolio_value |-> FromInt(f), cashflow |-> 0]>>

\* ledgers of one row, or of two rows a year apart, with small cashflows and
\* valuations; ledgers growing at -98, 0.1 and 499 percent; ledgers given
\* newest row first; an empty ledger and ledgers lacking a column
SolverLedgers ==
    LET one == {<<[date |-> FirstDay, portfolio_value |-> FromInt(v), cashflow |-> c]>> :
                   v \in {0, 1, 2}, c \in {-1, 0, 2}}
        two == {<<[date |-> FirstDay, portfolio_value |-> FromInt(1), cashflow |-> c0],
                  [date |-> AnniversaryDay, portfolio_value |-> FromInt(v), cashflow |-> c1]>> :
                   c0 \in {-1, 0, 1, 2}, v \in {0, 1, 2, 3}, c1 \in {-1, 0, 2}}
        growth == {GrowthLedger(100, 2), GrowthLedger(1000, 1001), GrowthLedger(100, 599)}
        all == one \cup two \cup growth \cup {Reversed(g) : g \in growth} \cup {<<>>}
    IN  {[columns |-> {"date", "portfolio_value", "cashflow"}, rows |-> r] : r \in all}
        \cup {[columns |-> {"date", "portfolio_value"},
               rows |-> <<[date |-> FirstDay, portfolio_value |-> FromInt(1)]>>],
              [columns |-> {"date", "cashflow"},
               rows |-> <<[date |-> FirstDay, cashflow |-> 2]>>]}

InitSolver ==
    /\ nav_df = [columns |-> {"date", "nav"}, rows |-> <<>>]
    /\ call = NoCall
    /\ ret = NoRet
    /\ asset_series = <<>>
    /\ merged = NoRet
    /\ portfolio_daily \in SolverLedgers
    /\ low = <<>> /\ high = <<>> /\ step = 0
    /\ FetchIdle

\* xirr_from_portfolio up to the loop: the checks, the schedule, the bracket
XirrStart ==
    /\ call = NoCall
    /\ LET ensured == _ensure_df(portfolio_daily)
       IN  IF ensured.kind = "error"
           THEN /\ ret' = ensured
                /\ call' = [op |-> "xirr_from_portfolio", pc |-> "done"]
                /\ UNCHANGED <<low, high>>
           ELSE IF "cashflow" \notin portfolio_daily.columns
           THEN /\ ret' = Raise(MissingCashflowMsg)
                /\ call' = [op |-> "xirr_from_portfolio", pc |-> "done"]
                /\ UNCHANGED <<low, high>>
           ELSE IF ensured.rows = <<>>
           THEN /\ ret' = Raise(IndexOutOfBoundsMsg)
                /\ call' = [op |-> "xirr_from_portfolio", pc |-> "done"]
                /\ UNCHANGED <<low, high>>
           ELSE /\ call' = [op |-> "xirr_from_portfolio", pc |-> "loop"]
                /\ low' = LowBound
                /\ high' = HighBound
                /\ UNCHANGED ret
    /\ UNCHANGED <<nav_df, asset_series, merged, portfolio_daily, step, fetchVars>>

\* one pass of the loop body
XirrStep ==
    /\ call.op = "xirr_from_portfolio" /\ call.pc = "loop"
    /\ InLoop(step)
    /\ LET cflows == Schedule(_ensure_df(portfolio_daily).rows)
           mid == Midpoint(low, high)
           bracket == Narrowed(low, high, mid, NpvPositive(cflows, mid))
       IN  /\ low' = bracket[1]
           /\ high' = bracket[2]
    /\ step' = step + 1
    /\ UNCHANGED <<nav_df, call, ret, asset_series, merged, portfolio_daily, fetchVars>>

\* x = (low + high) / 2.0; return x, cflows
XirrReturn ==
    /\ call.op = "xirr_from_portfolio" /\ call.pc = "loop"
    /\ ~InLoop(step)
    /\ ret' = [kind |-> "xirr", x |-> Midpoint(low, high),
               cflows |-> Schedule(_ensure_df(portfolio_daily).rows)]
    /\ call' = [op |-> "xirr_from_portfolio", pc |-> "done"]
    /\ UNCHANGED <<nav_df, asset_series, merged, analyticsVars, fetchVars>>

NextSolver == XirrStart \/ XirrStep \/ XirrReturn

SpecSolver == InitSolver /\ [][NextSolver]_vars

-----------------------------------------------------------------------------
(* Vocabulary of the solver properties *)

IsXirr == call.op = "xirr_from_portfolio"

Solving == IsXirr /\ call.pc = "loop"

XirrDone == IsXirr /\ call.pc = "done"

\* the ledger has the three columns and a row, so the bisection is reached
ReachesBisection ==
    /\ {"date", "portfolio_value", "cashflow"} \subseteq portfolio_daily.columns
    /\ portfolio_daily.rows # <<>>

\* high - low, exactly
BracketWidth == ExactSum(high, Negated(low))

\* 10.0 - (-0.9999), exactly
InitialWidth == ExactSum(HighBound, Negated(LowBound))

\* x / 2^n, exactly
HalvedTimes(x, n) ==
    Double(x.neg, [i \in 1..Width |-> IF i > n THEN x.mag[i - n] ELSE 0])

InBracketBounds(x) == DoubleLE(LowBound, x) /\ DoubleLE(x, HighBound)

\* the steps are counted up to 100, the bracket stays ordered inside
\* [-0.9999, 10.0], and what is returned after the 100th step is the midpoint
\* of the last bracket, a rate inside [-0.9999, 10.0]
BisectionSafe ==
    (IsXirr /\ ReachesBisection) =>
        /\ step <= Iterations
        /\ InBracketBounds(low) /\ InBracketBounds(high) /\ DoubleLE(low, high)
        /\ XirrDone =>
              /\ step = Iterations
              /\ ret.kind = "xirr"
              /\ ret.x = Midpoint(low, high)
              /\ InBracketBounds(ret.x)

-----------------------------------------------------------------------------
(* C19 *)

\* C19 as stated: for a ledger with a cashflow column the bisection makes
\* exactly 100 steps, keeps -0.9999 <= low <= high <= 10.0, halves the width
\* of the bracket at each step (after k steps the width is 10.9999 / 2^k, read
\* here up to a factor of two to leave room for rounding), and returns the
\* midpoint of the final bracket, a rate in [-0.9999, 10.0], whatever the signs
\* of the net present value.
C19_WidthHalvesEachStep ==
    /\ BisectionSafe
    /\ (IsXirr /\ ReachesBisection) =>
          /\ DoubleLE(HalvedTimes(InitialWidth, step + 1), BracketWidth)
          /\ DoubleLE(HalvedTimes(BracketWidth, 1), HalvedTimes(InitialWidth, step))

\* a step of the loop never widens the bracket, and halves it exactly when
\* low + high is a double (the midpoint is then exact)
WidthShrinks ==
    (Solving /\ step' = step + 1) =>
        /\ DoubleLE(ExactSum(high', Negated(low')), BracketWidth)
        /\ RoundToDouble(ExactSum(low, high)) = ExactSum(low, high) =>
              ExactSum(high', Negated(low')) = Halved(BracketWidth)

\* C19 amended: for a ledger with a cashflow column and a row the bisection
\* makes exactly 100 steps, keeps -0.9999 <= low <= high <= 10.0, never widens
\* the bracket and halves it at each step whose midpoint is exact in double
\* arithmetic, and returns the midpoint of the final bracket, a rate in
\* [-0.9999, 10.0], whatever the signs of the net present value.
C19_BracketNeverWidens == [](BisectionSafe) /\ [][WidthShrinks]_vars

\* the rate returned for a one-row ledger, whose cashflow and final valuation
\* share a date so that the net present value has one sign everywhere
C19_Witness ==
    /\ XirrDone /\ ReachesBisection /\ ret.kind = "xirr"
    /\ Len(portfolio_daily.rows) = 1
    /\ portfolio_daily.rows[1].cashflow # 0
    /\ step = Iterations
    /\ ret.x = HighBound

-----------------------------------------------------------------------------
(* C15 *)

\* the ledger holds one contribution on its first date and is valued a year
\* later, no other cashflow in between
SingleContribution ==
    /\ ReachesBisection
    /\ Len(GivenRows) = 2
    /\ ToOrdinal(Latest(GivenDates)) - ToOrdinal(Earliest(GivenDates)) = 365
    /\ (CHOOSE r \in Range(GivenRows) : r.date = Earliest(GivenDates)).cashflow > 0
    /\ (CHOOSE r \in Range(GivenRows) : r.date = Latest(GivenDates)).cashflow = 0

Contribution ==
    FromInt((CHOOSE r \in Range(GivenRows) : r.date = Earliest(GivenDates)).cashflow)

\* the rate r with final valuation = contribution * (1 + r)
TrueRate == RatSub(RatDiv(FinalValuation, Contribution), FromInt(1))

RatAbs(a) == IF a.n < 0 THEN RatMul(FromInt(-1), a) ELSE a

\* |x - c| <= tol for the double x and the rationals c and tol
WithinOf(x, c, tol) ==
    /\ Against(x, RatSub(c, tol)) # "lt"
    /\ Against(x, RatAdd(c, tol)) # "gt"

\* r lies in (-0.99, 5.0)
InClaimedRange(r) == RatLT(Rat(-99, 100), r) /\ RatLT(r, FromInt(5))

-----------------------------------------------------------------------------
(* _ensure_nav_df applied to tables that may repeat a date *)

EnsureDates == {<<2024, 1, 10>>, <<2024, 1, 31>>, <<2024, 2, 10>>}

EnsureRows ==
    [date : EnsureDates, nav : {1, 2}, numeric : {TRUE}]
    \cup [date : EnsureDates, nav : {0}, numeric : {FALSE}]

\* tables of at most MaxRows rows in any order, dates repeated or not; and
\* tables lacking a column
EnsureTables ==
    {[columns |-> {"date", "nav"}, rows |-> t] :
        t \in UNION {[1..n -> EnsureRows] : n \in 0..MaxRows}}
    \cup {[columns |-> c, rows |-> <<>>] : c \in {{"date"}, {"nav"}, {}}}

\* the orders sort_values may see rows of equal date in: its default sort is
\* not stable, so any arrangement of the rows may play the part of the input
\* order of the stable SortByDate
Arrangements(rows) ==
    LET n == Len(rows)
        perms == {p \in [1..n -> 1..n] : \A i, j \in 1..n : i # j => p[i] # p[j]}
    IN  {[i \in 1..n |-> rows[p[i]]] : p \in perms}

InitEnsure ==
    /\ nav_df \in EnsureTables
    /\ call = NoCall
    /\ ret = NoRet
    /\ asset_series = <<>>
    /\ merged = NoRet
    /\ AnalyticsIdle /\ FetchIdle

\* _ensure_nav_df(nav_df): works on a copy, nav_df itself is left alone
EnsureNavDf ==
    /\ call = NoCall
    /\ call' = [op |-> "_ensure_nav_df"]
    /\ \E t \in Arrangements(nav_df.rows) :
          ret' = _ensure_nav_df([columns |-> nav_df.columns, rows |-> t])
    /\ UNCHANGED <<nav_df, asset_series, merged, analyticsVars, fetchVars>>

NextEnsure == EnsureNavDf

SpecEnsure == InitEnsure /\ [][NextEnsure]_vars

-----------------------------------------------------------------------------
(* C17 *)

IsEnsure == call.op = "_ensure_nav_df"

HasNavColumns == {"date", "nav"} \subseteq nav_df.columns

\* the rows of the input whose price is a number
NumericRows == {i \in 1..Len(nav_df.rows) : nav_df.rows[i].numeric}

\* the returned rows are the input rows with a numeric price, each once
IsCleanedInput(rows) ==
    /\ Len(rows) = Cardinality(NumericRows)
    /\ \A r \in Range(rows) :
          Cardinality({i \in 1..Len(rows) : rows[i] = r})
              = Cardinality({i \in NumericRows :
                                nav_df.rows[i].date = r.date /\ nav_df.rows[i].nav = r.nav})

RaisesWhenUnusable ==
    /\ ~HasNavColumns => ret = Raise(MissingColumnsMsg)
    /\ (HasNavColumns /\ NumericRows = {}) => ret = Raise(NoValidRowsMsg)
    /\ (HasNavColumns /\ NumericRows # {}) => ret.kind = "frame"

\* C17 as stated: _ensure_nav_df returns a series in ascending date order in
\* which no two rows share a date and no row has a missing or non-numeric
\* price, and raises when the date or nav column is absent or no row remains
\* after cleaning.
C17_SortedDistinctNumeric ==
    IsEnsure =>
        /\ RaisesWhenUnusable
        /\ ret.kind = "frame" =>
              /\ IsSortedByDate(ret.rows)
              /\ HasDistinctDates(ret.rows)
              /\ \A r \in Range(ret.rows) :
                    \E i \in NumericRows :
                        nav_df.rows[i].date = r.date /\ nav_df.rows[i].nav = r.nav

\* what _ensure_nav_df does guarantee: ascending (not strictly) date order,
\* exactly the input rows with a numeric price, rows of a repeated date all
\* kept, and the errors on a missing column or no remaining row
C17_SortedNumericKeepsRepeats ==
    IsEnsure =>
        /\ RaisesWhenUnusable
        /\ ret.kind = "frame" => IsSortedByDate(ret.rows) /\ IsCleanedInput(ret.rows)

\* the call leaves its input table as it was
C17_InputUnmodified == [][IsEnsure' => nav_df' = nav_df]_vars

-----------------------------------------------------------------------------
(* The simulators and the merger side by side *)

InitLedgers == Init \/ InitMerge

\* a run either simulates one ledger or collects ledgers and merges them
NextLedgers ==
    \/ asset_series = <<>> /\ merged = NoRet /\ Next
    \/ call = NoCall /\ nav_df = [columns |-> {"date", "nav"}, rows |-> <<>>] /\ NextMerge

SpecLedgers == InitLedgers /\ [][NextLedgers]_vars

-----------------------------------------------------------------------------
(* C18 *)

RECURSIVE CashflowUpTo(_, _)
\* the sum of cashflow over rows 1..i
CashflowUpTo(rows, i) ==
    IF i = 0 THEN 0 ELSE CashflowUpTo(rows, i - 1) + rows[i].cashflow

IsRunningCashflowSum(rows) ==
    \A i \in 1..Len(rows) : rows[i].cumulative_invested = CashflowUpTo(rows, i)

\* C18: in every ledger row produced by simulate_lumpsum or simulate_sip,
\* cumulative_invested is the sum of cashflow over that row and all earlier
\* rows; and in the merged ledger built from such ledgers cumulative_invested
\* on each date is the running sum of the merged cashflow column up to and
\* including that date.
C18_RunningCashflowSum ==
    /\ ((IsLumpsum \/ IsSip) /\ ReturnedLedger) => IsRunningCashflowSum(Ledger)
    /\ \A k \in 1..Len(asset_series) : IsRunningCashflowSum(asset_series[k][2])
    /\ merged.kind = "frame" => IsRunningCashflowSum(merged.rows)

\* a merged ledger of two assets where one asset has no row on a date after
\* its first purchase (its invested amount is carried to that date) and money
\* goes in on two different dates
C18_Witness ==
    /\ merged.kind = "frame"
    /\ Len(asset_series) = 2
    /\ \E i, j \in 1..Len(merged.rows) :
          /\ i < j
          /\ merged.rows[i].cashflow > 0 /\ merged.rows[j].cashflow > 0
          /\ \E k \in 1..2 :
                LET own == asset_series[k][2]
                IN  /\ \E r \in Range(own) : r.date = merged.rows[i].date /\ r.cashflow > 0
                    /\ \A r \in Range(own) : r.date # merged.rows[j].date

-----------------------------------------------------------------------------
(* service/nav_parallel.py *)

None == [kind |-> "None"]

\* what get_nav_history and nav_json_to_df give for a scheme code: a table for
\* the codes 1 and 2, an exception for the others
FetchError(code) == [kind |-> "error", msg |-> <<"fetch failed", code>>]

FetchedTable(code) ==
    [columns |-> {"date", "nav"},
     rows |-> <<[date |-> <<2024, 1, 10>>, nav |-> code, numeric |-> TRUE]>>]

\* fetch_nav_for_one(asset): (aid, nav_df, None) or (aid, None, e)
fetch_nav_for_one(asset) ==
    IF asset.scheme_code \in {1, 2}
    THEN <<asset.id, FetchedTable(asset.scheme_code), None>>
    ELSE <<asset.id, None, FetchError(asset.scheme_code)>>

\* the failed result is stored like a fetched one
NeverRaises(err) == FALSE

\* if err is not None: raise err
Raises(err) == err # None

\* out[aid] = nav_df
Stored(mapping, aid, df) ==
    [a \in DOMAIN mapping \cup {aid} |-> IF a = aid THEN df ELSE mapping[a]]

\* the assets a caller may ask for: three ids, one of them under two scheme
\* codes, two scheme codes whose fetch fails
AssetInputs ==
    {[id |-> "a", scheme_code |-> 1], [id |-> "b", scheme_code |-> 2],
     [id |-> "c", scheme_code |-> 3], [id |-> "a", scheme_code |-> 2],
     [id |-> "b", scheme_code |-> 4], [id |-> "c", scheme_code |-> 1]}

InitFetch ==
    /\ nav_df = [columns |-> {"date", "nav"}, rows |-> <<>>]
    /\ call = NoCall
    /\ ret = NoRet
    /\ asset_series = <<>>
    /\ merged = NoRet
    /\ AnalyticsIdle /\ FetchIdle

\* out = {}; one task submitted per asset, in the order given (fewer tasks
\* than max_workers, so every task has a thread)
Submit ==
    /\ call = NoCall
    /\ \E n \in 0..MaxAssets : \E asset_inputs \in [1..n -> AssetInputs] :
          /\ call' = [op |-> "fetch_navs_parallel", asset_inputs |-> asset_inputs,
                      pc |-> "collect", collected |-> <<>>, err |-> None]
          /\ futures' = [i \in 1..n |-> [state |-> "running", result |-> None]]
    /\ out' = <<>>
    /\ UNCHANGED <<nav_df, ret, asset_series, merged, analyticsVars>>

\* a worker thread finishes its fetch_nav_for_one, whatever the main thread
\* is doing
TaskFinish ==
    /\ call.op = "fetch_navs_parallel"
    /\ \E i \in 1..Len(futures) :
          /\ futures[i].state = "running"
          /\ futures' = [futures EXCEPT
                            ![i] = [state |-> "finished",
                                    result |-> fetch_nav_for_one(call.asset_inputs[i])]]
    /\ UNCHANGED <<nav_df, call, ret, asset_series, merged, analyticsVars, out>>

\* one pass of the as_completed loop: a finished future not yet seen is
\* handed over; its error leaves the loop, its table is stored under its id
Collect ==
    /\ call.op = "fetch_navs_parallel" /\ call.pc = "collect"
    /\ \E i \in 1..Len(futures) :
          /\ futures[i].state = "finished"
          /\ i \notin Range(call.collected)
          /\ LET aid == futures[i].result[1]
                 df == futures[i].result[2]
                 err == futures[i].result[3]
             IN  IF Raises(err)
                 THEN /\ call' = [call EXCEPT !.pc = "raising", !.err = err,
                                              !.collected = Append(@, i)]
                      /\ out' = out
                 ELSE /\ call' = [call EXCEPT !.collected = Append(@, i)]
                      /\ out' = Stored(out, aid, df)
    /\ UNCHANGED <<nav_df, ret, asset_series, merged, analyticsVars, futures>>

\* the loop is over, every future was handed over: return out
ReturnOut ==
    /\ call.op = "fetch_navs_parallel" /\ call.pc = "collect"
    /\ Len(call.collected) = Len(futures)
    /\ call' = [call EXCEPT !.pc = "done"]
    /\ ret' = [kind |-> "mapping", out |-> out]
    /\ UNCHANGED <<nav_df, asset_series, merged, analyticsVars, fetchVars>>

\* the raised error leaves the with block, whose exit waits for every task
RaiseAfterShutdown ==
    /\ call.op = "fetch_navs_parallel" /\ call.pc = "raising"
    /\ \A i \in 1..Len(futures) : futures[i].state = "finished"
    /\ call' = [call EXCEPT !.pc = "done"]
    /\ ret' = call.err
    /\ UNCHANGED <<nav_df, asset_series, merged, analyticsVars, fetchVars>>

NextFetch == Submit \/ TaskFinish \/ Collect \/ ReturnOut \/ RaiseAfterShutdown

SpecFetch == InitFetch /\ [][NextFetch]_vars

-----------------------------------------------------------------------------
(* C20 *)

IsFetch == call.op = "fetch_navs_parallel"

FetchOver == IsFetch /\ call.pc = "done"

Requested == call.asset_inputs

RequestedIds == {Requested[i].id : i \in 1..Len(Requested)}

HasDistinctIds ==
    \A i, j \in 1..Len(Requested) : i # j => Requested[i].id # Requested[j].id

Fails(asset) == fetch_nav_for_one(asset)[3] # None

AllFetchesSucceed == \A i \in 1..Len(Requested) : ~Fails(Requested[i])

\* the tables fetched for the assets of id aid
TablesFor(aid) ==
    {fetch_nav_for_one(Requested[i])[2] :
        i \in {j \in 1..Len(Requested) : Requested[j].id = aid}}

\* C20: with pairwise distinct ids and every fetch succeeding,
\* fetch_navs_parallel returns the mapping id -> fetched table, one entry per
\* input asset, whatever the completion order; if a fetch fails it raises the
\* error of a failed fetch and returns no mapping; it returns or raises only
\* once every submitted task has finished; with ids shared between inputs the
\* entry of an id is the table of one of the inputs with that id.
C20_OrderIndependentMapping ==
    FetchOver =>
        /\ \A i \in 1..Len(futures) : futures[i].state = "finished"
        /\ AllFetchesSucceed =>
              /\ ret.kind = "mapping"
              /\ DOMAIN ret.out = RequestedIds
              /\ \A aid \in RequestedIds : ret.out[aid] \in TablesFor(aid)
              /\ HasDistinctIds =>
                    /\ Cardinality(DOMAIN ret.out) = Len(Requested)
                    /\ \A i \in 1..Len(Requested) :
                          ret.out[Requested[i].id] = fetch_nav_for_one(Requested[i])[2]
        /\ ~AllFetchesSucceed =>
              /\ ret.kind = "error"
              /\ \E i \in 1..Len(Requested) :
                    Fails(Requested[i]) /\ ret = fetch_nav_for_one(Requested[i])[3]

\* three assets of distinct ids whose fetches succeed, handed over in another
\* order than they were submitted in, and the mapping returned
C20_Witness ==
    /\ FetchOver /\ ret.kind = "mapping"
    /\ Len(Requested) = 3 /\ HasDistinctIds
    /\ call.collected = <<3, 1, 2>>
    /\ Cardinality(DOMAIN ret.out) = 3

\* with two inputs of one id the entry is that of the input submitted last
C20_LastSubmittedSurvives ==
    (FetchOver /\ ret.kind = "mapping") =>
        \A i \in 1..Len(Requested) :
            (\A j \in (i + 1)..Len(Requested) : Requested[j].id # Requested[i].id)
                => ret.out[Requested[i].id] = fetch_nav_for_one(Requested[i])[2]

\* with two inputs of one id the entry is that of the input submitted first
C20_FirstSubmittedSurvives ==
    (FetchOver /\ ret.kind = "mapping") =>
        \A i \in 1..Len(Requested) :
            (\A j \in 1..(i - 1) : Requested[j].id # Requested[i].id)
                => ret.out[Requested[i].id] = fetch_nav_for_one(Requested[i])[2]

=============================================================================
